---------------------------- MODULE Spec2Model ----------------------------
(***************************************************************************)
(* A model of the CHIP-8 emulator core (emulator.rs, opcodes.rs,           *)
(* display.rs, program.rs) as driven by its host (main.rs).                *)
(*                                                                         *)
(* Conventions                                                             *)
(*  - u8 and u16 values are naturals kept in range by explicit % 256 and   *)
(*    % 65536, exactly where the source wraps.                             *)
(*  - Durations are whole milliseconds.                                    *)
(*  - memory is the [u8; 4096] array with zero bytes left out of the       *)
(*    function's domain (MemGet reads an absent address as 0), display is  *)
(*    the set of lit pixels <<y, x>> of pixels[y][x].                      *)
(*  - A Rust panic ends the process: it is recorded in result and no       *)
(*    further step is taken.                                               *)
(*  - The threads of the renderer (renderer/tui.rs) take one action at a   *)
(*    time; a lock is taken in one action and released in a later one.     *)
(*  - Plain + and - on u16 panic on overflow when the build has overflow   *)
(*    checks (debug profile) and wrap when it has not (release profile);   *)
(*    overflow_checks is fixed at start-up to either.                      *)
(***************************************************************************)
EXTENDS Integers, Sequences, FiniteSets, TLC

VARIABLES
    memory,                     \* Chip8State.memory
    display,                    \* Chip8State.display.pixels
    pc,                         \* Chip8State.pc
    stack,                      \* Chip8State.stack
    index_register,             \* Chip8State.index_register
    delay_timer,                \* Chip8State.delay_timer
    since_last_delay_update,    \* Chip8State.since_last_delay_update (ms)
    sound_timer,                \* Chip8State.sound_timer
    since_last_sound_update,    \* Chip8State.since_last_sound_update (ms)
    gp_registers,               \* Chip8State.gp_registers
    key_state,                  \* Chip8State.key_state
    host,                       \* position of main(): "new", "font", "run"
    rom,                        \* Program.data: the bytes handed to main()
    result,                     \* what the last call of step returned
    history,                    \* one record per call of step, oldest first
    overflow_checks,            \* TRUE: arithmetic overflow panics
    tui                         \* TuiRenderer: what its threads share, and
                                \* where each thread and the loop of main() are

vars == <<memory, display, pc, stack, index_register, delay_timer,
          since_last_delay_update, sound_timer, since_last_sound_update,
          gp_registers, key_state, host, rom, result, history, overflow_checks,
          tui>>

----------------------------------------------------------------------------
(* Program constants *)

MEMORY_SIZE == 4096
SCREEN_WIDTH == 64
SCREEN_HEIGHT == 32
DECREMENT_PERIOD == 17
PROGRAM_START == 512
MAX_PROGRAM_LEN == 2048
FONT_START == 80

U8 == 256
U16 == 65536

----------------------------------------------------------------------------
(* Bit operations on naturals *)

RECURSIVE BitAnd(_, _)
BitAnd(a, b) ==
    IF a = 0 \/ b = 0 THEN 0
    ELSE (IF a % 2 = 1 /\ b % 2 = 1 THEN 1 ELSE 0) + 2 * BitAnd(a \div 2, b \div 2)

RECURSIVE BitOr(_, _)
BitOr(a, b) ==
    IF a = 0 THEN b
    ELSE IF b = 0 THEN a
    ELSE (IF a % 2 = 1 \/ b % 2 = 1 THEN 1 ELSE 0) + 2 * BitOr(a \div 2, b \div 2)

RECURSIVE BitXor(_, _)
BitXor(a, b) ==
    IF a = 0 THEN b
    ELSE IF b = 0 THEN a
    ELSE (IF a % 2 # b % 2 THEN 1 ELSE 0) + 2 * BitXor(a \div 2, b \div 2)

----------------------------------------------------------------------------
(* Memory: the non-zero bytes of the 4096-byte array *)

EmptyMemory == [a \in {} |-> 0]

MemGet(m, a) == IF a \in DOMAIN m THEN m[a] ELSE 0

MemPut(m, a, b) ==
    IF b = 0
    THEN [x \in (DOMAIN m) \ {a} |-> m[x]]
    ELSE [x \in (DOMAIN m) \cup {a} |-> IF x = a THEN b ELSE m[x]]

\* memory[start .. start + Len(bytes)) := bytes (copy_from_slice)
MemCopy(m, start, bytes) ==
    LET written == start .. (start + Len(bytes) - 1)
        nonzero == { a \in written : bytes[a - start + 1] # 0 }
    IN  [x \in ((DOMAIN m) \ written) \cup nonzero |->
            IF x \in written THEN bytes[x - start + 1] ELSE m[x]]

----------------------------------------------------------------------------
(* OpCodeData::decode *)

\* decode whose nnn is put together in u8, where the shifted nibble is lost
decode_nnn_in_u8(opcode_bytes) ==
    LET byte0 == opcode_bytes \div 256
        byte1 == opcode_bytes % 256
    IN  [ full_opcode |-> opcode_bytes,
          x   |-> BitAnd(byte0, 15),
          y   |-> BitAnd(byte1, 240) \div 16,
          n   |-> BitAnd(byte1, 15),
          nn  |-> byte1,
          nnn |-> BitOr((BitAnd(byte0, 15) * 256) % U8, byte1) ]

\* decode whose y is masked and not shifted down
decode_y_unshifted(opcode_bytes) ==
    LET byte0 == opcode_bytes \div 256
        byte1 == opcode_bytes % 256
    IN  [ full_opcode |-> opcode_bytes,
          x   |-> BitAnd(byte0, 15),
          y   |-> BitAnd(byte1, 240),
          n   |-> BitAnd(byte1, 15),
          nn  |-> byte1,
          nnn |-> BitOr(BitAnd(byte0, 15) * 256, byte1) ]

decode(opcode_bytes) ==
    LET byte0 == opcode_bytes \div 256
        byte1 == opcode_bytes % 256
    IN  [ full_opcode |-> opcode_bytes,
          x   |-> BitAnd(byte0, 15),
          y   |-> BitAnd(byte1, 240) \div 16,
          n   |-> BitAnd(byte1, 15),
          nn  |-> byte1,
          nnn |-> BitOr(BitAnd(byte0, 15) * 256, byte1) ]

----------------------------------------------------------------------------
(* The machine state handed to an instruction: Chip8State as a record,     *)
(* plus fault, the panic raised while the instruction ran ("" for none).   *)

NoFault == ""

Fault(s, why) == [s EXCEPT !.fault = why]

\* Chip8State::gp_register, read and written
Reg(s, index) == s.gp_registers[index]

SetReg(s, index, value) == [s EXCEPT !.gp_registers[index] = value]

\* Chip8State::is_pressed is defined for key in 0..15 only: indexing the
\* 16-entry array with a larger key panics.
KeyInRange(key) == key < 16

is_pressed(s, key) == s.key_state[key]

\* impl AddAssign<u16> for Address: overflowing_add, wraps on every build
AddressAdd(address, other) == (address + other) % U16

\* impl AddAssign<u8> for Register: overflowing_add, wraps on every build
RegisterAdd(register, other) == (register + other) % U8

\* memory_set that wraps past the last byte to address 0 and never panics
memory_set_wrapping(s, bytes, start) ==
    LET address(i) == (start + i - 1) % MEMORY_SIZE
        written == { address(i) : i \in 1 .. Len(bytes) }
        value(a) == bytes[CHOOSE i \in 1 .. Len(bytes) : address(i) = a]
        nonzero == { a \in written : value(a) # 0 }
    IN  [s EXCEPT !.memory =
            [x \in ((DOMAIN s.memory) \ written) \cup nonzero |->
                IF x \in written THEN value(x) ELSE s.memory[x]]]

\* Chip8State::memory_set
memory_set(s, bytes, start) ==
    LET byte_end == start + Len(bytes)
    IN  IF byte_end > MEMORY_SIZE
        THEN Fault(s, "write_past_end")
        ELSE [s EXCEPT !.memory = MemCopy(s.memory, start, bytes)]

----------------------------------------------------------------------------
(* Display *)

\* Coordinates::new
Coordinates(x, y) == [x |-> x % SCREEN_WIDTH, y |-> y % SCREEN_HEIGHT]

\* bit (7 - j) of a sprite byte
SpriteBit(byte, j) == (byte \div (2 ^ (7 - j))) % 2 = 1

\* clear that resets the first row of pixels only
clear_first_row(pixels) == { p \in pixels : p[1] # 0 }

\* Display::clear
clear(pixels) == {}

\* apply_sprite whose columns past the right edge come back at the left
apply_sprite_wrapping(pixels, sprite, coordinates) ==
    LET flipped ==
            { <<coordinates.y + (i - 1), (coordinates.x + j) % SCREEN_WIDTH>> :
                <<i, j>> \in { ij \in (1 .. Len(sprite)) \X (0 .. 7) :
                    /\ (ij[1] - 1) + coordinates.y < SCREEN_HEIGHT
                    /\ SpriteBit(sprite[ij[1]], ij[2]) } }
    IN  (pixels \ flipped) \cup (flipped \ pixels)

\* apply_sprite that lights the pixels of the sprite instead of flipping them
apply_sprite_lighting(pixels, sprite, coordinates) ==
    LET flipped ==
            { <<coordinates.y + (i - 1), coordinates.x + j>> :
                <<i, j>> \in { ij \in (1 .. Len(sprite)) \X (0 .. 7) :
                    /\ (ij[1] - 1) + coordinates.y < SCREEN_HEIGHT
                    /\ coordinates.x + ij[2] < SCREEN_WIDTH
                    /\ SpriteBit(sprite[ij[1]], ij[2]) } }
    IN  pixels \cup flipped

\* Display::apply_sprite with apply_row: row i is drawn while
\* coordinates.y + i < 32, columns run from x to min(x + 8, 64), and a pixel
\* is flipped when its sprite bit is set.
apply_sprite(pixels, sprite, coordinates) ==
    LET flipped ==
            { <<coordinates.y + (i - 1), coordinates.x + j>> :
                <<i, j>> \in { ij \in (1 .. Len(sprite)) \X (0 .. 7) :
                    /\ (ij[1] - 1) + coordinates.y < SCREEN_HEIGHT
                    /\ coordinates.x + ij[2] < SCREEN_WIDTH
                    /\ SpriteBit(sprite[ij[1]], ij[2]) } }
    IN  (pixels \ flipped) \cup (flipped \ pixels)

----------------------------------------------------------------------------
(* The instructions (opcodes.rs), each the execute of its OpCodeReader.    *)
(* s.pc has been advanced past the instruction when they run.              *)

ClearScreen(s, d) == [s EXCEPT !.display = clear(s.display)]

Jump(s, d) == [s EXCEPT !.pc = d.nnn]

SetRegisterConst(s, d) == SetReg(s, d.x, d.nn)

\* add-constant that records the carry in register F, as register addition does
AddRegisterConst_with_flag(s, d) ==
    SetReg(SetReg(s, d.x, RegisterAdd(Reg(s, d.x), d.nn)), 15,
           IF Reg(s, d.x) + d.nn > 255 THEN 1 ELSE 0)

AddRegisterConst(s, d) == SetReg(s, d.x, RegisterAdd(Reg(s, d.x), d.nn))

SetIndexRegister(s, d) == [s EXCEPT !.index_register = d.nnn]

\* draw that records in register F whether a lit pixel was turned off
DisplayDraw_with_collision_flag(s, d) ==
    LET draw_coordinates == Coordinates(Reg(s, d.x), Reg(s, d.y))
        rows == d.n
        sprite_start == s.index_register
        sprite_end == sprite_start + rows
        sprite == [i \in 1 .. rows |-> MemGet(s.memory, sprite_start + i - 1)]
        drawn == apply_sprite(s.display, sprite, draw_coordinates)
    IN  IF sprite_end > MEMORY_SIZE
        THEN Fault(s, "read_past_end")
        ELSE SetReg([s EXCEPT !.display = drawn], 15,
                    IF s.display \ drawn # {} THEN 1 ELSE 0)

DisplayDraw(s, d) ==
    LET draw_coordinates == Coordinates(Reg(s, d.x), Reg(s, d.y))
        rows == d.n
        sprite_start == s.index_register
        sprite_end == sprite_start + rows
        sprite == [i \in 1 .. rows |-> MemGet(s.memory, sprite_start + i - 1)]
    IN  IF sprite_end > MEMORY_SIZE
        THEN Fault(s, "read_past_end")
        ELSE [s EXCEPT !.display = apply_sprite(s.display, sprite, draw_coordinates)]

SubroutineCall(s, d) == [s EXCEPT !.stack = Append(s.stack, s.pc), !.pc = d.nnn]

\* return that takes the oldest address of the stack instead of the newest
SubroutineReturn_pops_oldest(s, d) ==
    IF s.stack = <<>>
    THEN Fault(s, "pop_empty_stack")
    ELSE [s EXCEPT !.pc = s.stack[1], !.stack = Tail(s.stack)]

\* return that goes on to the next instruction when the stack is empty
SubroutineReturn_ignores_empty(s, d) ==
    IF s.stack = <<>>
    THEN s
    ELSE [s EXCEPT !.pc = s.stack[Len(s.stack)],
                   !.stack = SubSeq(s.stack, 1, Len(s.stack) - 1)]

\* return that reads the top of the stack and leaves it there
SubroutineReturn_keeps_frame(s, d) ==
    IF s.stack = <<>>
    THEN Fault(s, "pop_empty_stack")
    ELSE [s EXCEPT !.pc = s.stack[Len(s.stack)]]

SubroutineReturn(s, d) ==
    IF s.stack = <<>>
    THEN Fault(s, "pop_empty_stack")
    ELSE [s EXCEPT !.pc = s.stack[Len(s.stack)],
                   !.stack = SubSeq(s.stack, 1, Len(s.stack) - 1)]

SkipConstEqual(s, d) ==
    IF Reg(s, d.x) = d.nn THEN [s EXCEPT !.pc = AddressAdd(s.pc, 2)] ELSE s

SkipConstNotEqual(s, d) ==
    IF Reg(s, d.x) # d.nn THEN [s EXCEPT !.pc = AddressAdd(s.pc, 2)] ELSE s

SkipRegistersEqual(s, d) ==
    IF Reg(s, d.x) = Reg(s, d.y) THEN [s EXCEPT !.pc = AddressAdd(s.pc, 2)] ELSE s

\* skip-if-registers-differ that tests for equality
SkipRegistersNotEqual_tests_equal(s, d) ==
    IF Reg(s, d.x) = Reg(s, d.y) THEN [s EXCEPT !.pc = AddressAdd(s.pc, 2)] ELSE s

SkipRegistersNotEqual(s, d) ==
    IF Reg(s, d.x) # Reg(s, d.y) THEN [s EXCEPT !.pc = AddressAdd(s.pc, 2)] ELSE s

SetRegisterRegister(s, d) == SetReg(s, d.x, Reg(s, d.y))

BinaryOr(s, d) == SetReg(s, d.x, BitOr(Reg(s, d.x), Reg(s, d.y)))

BinaryAnd(s, d) == SetReg(s, d.x, BitAnd(Reg(s, d.x), Reg(s, d.y)))

BinaryXor(s, d) == SetReg(s, d.x, BitXor(Reg(s, d.x), Reg(s, d.y)))

\* register addition that leaves register F alone, as add-constant does
AddRegisters_without_flag(s, d) ==
    SetReg(s, d.x, (Reg(s, d.x) + Reg(s, d.y)) % U8)

AddRegisters(s, d) ==
    LET x_reg_val == Reg(s, d.x)
        y_reg_val == Reg(s, d.y)
        sat_add == IF x_reg_val + y_reg_val > 255 THEN 255 ELSE x_reg_val + y_reg_val
        wrap_add == (x_reg_val + y_reg_val) % U8
    IN  SetReg(SetReg(s, d.x, wrap_add), 15, IF sat_add # wrap_add THEN 1 ELSE 0)

\* subtraction with the flag the other way round: 1 on borrow
SubtractRegisters_flag_on_borrow(s, d) ==
    LET x_reg_val == Reg(s, d.x)
        y_reg_val == Reg(s, d.y)
    IN  SetReg(SetReg(s, d.x, (x_reg_val - y_reg_val) % U8), 15,
               IF y_reg_val > x_reg_val THEN 1 ELSE 0)

SubtractRegisters(s, d) ==
    LET x_reg_val == Reg(s, d.x)
        y_reg_val == Reg(s, d.y)
    IN  SetReg(SetReg(s, d.x, (x_reg_val - y_reg_val) % U8), 15,
               IF y_reg_val > x_reg_val THEN 0 ELSE 1)

SubtractRegistersReverse(s, d) ==
    LET x_reg_val == Reg(s, d.x)
        y_reg_val == Reg(s, d.y)
    IN  SetReg(SetReg(s, d.x, (y_reg_val - x_reg_val) % U8), 15,
               IF x_reg_val > y_reg_val THEN 0 ELSE 1)

\* shift right of register Y into register X
ShiftRegisterRight_of_y(s, d) ==
    LET removed_bit == BitAnd(Reg(s, d.y), 1)
    IN  SetReg(SetReg(s, d.x, Reg(s, d.y) \div 2), 15, removed_bit)

ShiftRegisterRight(s, d) ==
    LET removed_bit == BitAnd(Reg(s, d.x), 1)
    IN  SetReg(SetReg(s, d.x, Reg(s, d.x) \div 2), 15, removed_bit)

\* shift left that writes the flag before the shifted value
ShiftRegisterLeft_flag_first(s, d) ==
    LET removed_bit == IF BitAnd(Reg(s, d.x), 128) = 0 THEN 0 ELSE 1
    IN  SetReg(SetReg(s, 15, removed_bit), d.x, (Reg(s, d.x) * 2) % U8)

ShiftRegisterLeft(s, d) ==
    LET removed_bit == IF BitAnd(Reg(s, d.x), 128) = 0 THEN 0 ELSE 1
    IN  SetReg(SetReg(s, d.x, (Reg(s, d.x) * 2) % U8), 15, removed_bit)

\* state.pc.0 + nnn + V0: plain u16 additions
JumpOffset(s, d) ==
    LET sum == s.pc + d.nnn + Reg(s, 0)
    IN  IF sum >= U16 /\ overflow_checks
        THEN Fault(s, "overflow")
        ELSE [s EXCEPT !.pc = sum % U16]

\* random that stores the random byte as it is
Random_unmasked(s, d, random_byte) == SetReg(s, d.x, random_byte)

\* rand::random::<u8>() & nn, the random byte being random_byte
Random(s, d, random_byte) == SetReg(s, d.x, BitAnd(random_byte, d.nn))

SkipIfKey(s, d) ==
    LET key == Reg(s, d.x)
    IN  IF ~KeyInRange(key) THEN Fault(s, "key_out_of_bounds")
        ELSE IF is_pressed(s, key)
        THEN IF s.pc + 2 >= U16 /\ overflow_checks
             THEN Fault(s, "overflow")
             ELSE [s EXCEPT !.pc = (s.pc + 2) % U16]
        ELSE s

SkipIfNotKey(s, d) ==
    LET key == Reg(s, d.x)
    IN  IF ~KeyInRange(key) THEN Fault(s, "key_out_of_bounds")
        ELSE IF ~is_pressed(s, key)
        THEN IF s.pc + 2 >= U16 /\ overflow_checks
             THEN Fault(s, "overflow")
             ELSE [s EXCEPT !.pc = (s.pc + 2) % U16]
        ELSE s

ReadDelayTimer(s, d) == SetReg(s, d.x, s.delay_timer)

\* set-delay-timer that also restarts the decrement period
SetDelayTimer_restarts_period(s, d) ==
    [s EXCEPT !.delay_timer = Reg(s, d.x), !.since_last_delay_update = 0]

SetDelayTimer(s, d) == [s EXCEPT !.delay_timer = Reg(s, d.x)]

SetSoundTimer(s, d) == [s EXCEPT !.sound_timer = Reg(s, d.x)]

\* index_register.0 += VX is a plain u16 addition; the flag is written last
AddIndexRegister(s, d) ==
    LET sum == s.index_register + Reg(s, d.x)
    IN  IF sum >= U16 /\ overflow_checks
        THEN Fault(s, "overflow")
        ELSE SetReg([s EXCEPT !.index_register = sum % U16], 15,
                    IF sum % U16 > 4095 THEN 1 ELSE 0)

\* get-key that goes on to the next instruction whether the key is pressed
\* or not
GetKey_goes_on(s, d) ==
    LET key == Reg(s, d.x)
    IN  IF ~KeyInRange(key) THEN Fault(s, "key_out_of_bounds") ELSE s

\* pc.0 -= 2 is a plain u16 subtraction
GetKey(s, d) ==
    LET key == Reg(s, d.x)
    IN  IF ~KeyInRange(key) THEN Fault(s, "key_out_of_bounds")
        ELSE IF ~is_pressed(s, key)
        THEN IF s.pc < 2 /\ overflow_checks
             THEN Fault(s, "overflow")
             ELSE [s EXCEPT !.pc = (s.pc - 2) % U16]
        ELSE s

ReadFontCharacter(s, d) ==
    [s EXCEPT !.index_register = FONT_START + Reg(s, d.x) * 5]

\* decimal decoding whose tens digit is not reduced below ten
DecimalDecoding_tens_unreduced(s, d) ==
    LET register_val == Reg(s, d.x)
        digits == << register_val \div 100,
                     (register_val \div 10) % U8,
                     register_val % 10 >>
    IN  memory_set(s, digits, s.index_register)

DecimalDecoding(s, d) ==
    LET register_val == Reg(s, d.x)
        digits == << register_val \div 100,
                     (register_val % 100) \div 10,
                     register_val % 10 >>
    IN  memory_set(s, digits, s.index_register)

\* for reg in 0..=x: memory[I + reg] = V[reg]; the index is checked at each
\* write, so the bytes below the end of memory are written before the panic
RECURSIVE store_from(_, _, _)
store_from(s, reg, x) ==
    IF reg > x THEN s
    ELSE IF s.index_register + reg >= MEMORY_SIZE THEN Fault(s, "index_past_end")
    ELSE store_from([s EXCEPT !.memory = MemPut(s.memory, s.index_register + reg, Reg(s, reg))],
                    reg + 1, x)

\* store of registers 0 to X - 1: the range 0..x instead of 0..=x
StoreMemory_exclusive(s, d) == store_from(s, 0, d.x - 1)

StoreMemory(s, d) == store_from(s, 0, d.x)

\* for reg in 0..=x: V[reg] = memory[I + reg]
RECURSIVE load_from(_, _, _, _)
load_from(s, address_start, reg, x) ==
    IF reg > x THEN s
    ELSE IF address_start + reg >= MEMORY_SIZE THEN Fault(s, "index_past_end")
    ELSE load_from(SetReg(s, reg, MemGet(s.memory, address_start + reg)),
                   address_start, reg + 1, x)

\* load of registers 0 to X - 1: the range 0..x instead of 0..=x
LoadMemory_exclusive(s, d) == load_from(s, s.index_register, 0, d.x - 1)

LoadMemory(s, d) == load_from(s, s.index_register, 0, d.x)

----------------------------------------------------------------------------
(* EmulatedChip8 *)

\* the table with 8XY0 matched on its first nibble alone
supported_instructions_wide_mask ==
    << [name |-> "ClearScreen",              val |-> 224,   mask |-> 65535],
       [name |-> "Jump",                     val |-> 4096,  mask |-> 61440],
       [name |-> "SetRegisterConst",         val |-> 24576, mask |-> 61440],
       [name |-> "AddRegisterConst",         val |-> 28672, mask |-> 61440],
       [name |-> "SetIndexRegister",         val |-> 40960, mask |-> 61440],
       [name |-> "DisplayDraw",              val |-> 53248, mask |-> 61440],
       [name |-> "SubroutineCall",           val |-> 8192,  mask |-> 61440],
       [name |-> "SubroutineReturn",         val |-> 238,   mask |-> 65535],
       [name |-> "SkipConstEqual",           val |-> 12288, mask |-> 61440],
       [name |-> "SkipConstNotEqual",        val |-> 16384, mask |-> 61440],
       [name |-> "SkipRegistersEqual",       val |-> 20480, mask |-> 61455],
       [name |-> "SkipRegistersNotEqual",    val |-> 36864, mask |-> 61455],
       [name |-> "SetRegisterRegister",      val |-> 32768, mask |-> 61440],
       [name |-> "BinaryOr",                 val |-> 32769, mask |-> 61455],
       [name |-> "BinaryAnd",                val |-> 32770, mask |-> 61455],
       [name |-> "BinaryXor",                val |-> 32771, mask |-> 61455],
       [name |-> "AddRegisters",             val |-> 32772, mask |-> 61455],
       [name |-> "SubtractRegisters",        val |-> 32773, mask |-> 61455],
       [name |-> "SubtractRegistersReverse", val |-> 32775, mask |-> 61455],
       [name |-> "ShiftRegisterRight",       val |-> 32774, mask |-> 61455],
       [name |-> "ShiftRegisterLeft",        val |-> 32782, mask |-> 61455],
       [name |-> "JumpOffset",               val |-> 45056, mask |-> 61440],
       [name |-> "Random",                   val |-> 49152, mask |-> 61440],
       [name |-> "SkipIfKey",                val |-> 57502, mask |-> 61695],
       [name |-> "SkipIfNotKey",             val |-> 57505, mask |-> 61695],
       [name |-> "ReadDelayTimer",           val |-> 61447, mask |-> 61695],
       [name |-> "SetDelayTimer",            val |-> 61461, mask |-> 61695],
       [name |-> "SetSoundTimer",            val |-> 61464, mask |-> 61695],
       [name |-> "AddIndexRegister",         val |-> 61470, mask |-> 61695],
       [name |-> "GetKey",                   val |-> 61466, mask |-> 61695],
       [name |-> "ReadFontCharacter",        val |-> 61481, mask |-> 61695],
       [name |-> "DecimalDecoding",          val |-> 61491, mask |-> 61695],
       [name |-> "StoreMemory",              val |-> 61525, mask |-> 61695],
       [name |-> "LoadMemory",               val |-> 61541, mask |-> 61695] >>

\* EmulatedChip8::new: supported_instructions, in the order of the vec!
supported_instructions ==
    << [name |-> "ClearScreen",              val |-> 224,   mask |-> 65535],
       [name |-> "Jump",                     val |-> 4096,  mask |-> 61440],
       [name |-> "SetRegisterConst",         val |-> 24576, mask |-> 61440],
       [name |-> "AddRegisterConst",         val |-> 28672, mask |-> 61440],
       [name |-> "SetIndexRegister",         val |-> 40960, mask |-> 61440],
       [name |-> "DisplayDraw",              val |-> 53248, mask |-> 61440],
       [name |-> "SubroutineCall",           val |-> 8192,  mask |-> 61440],
       [name |-> "SubroutineReturn",         val |-> 238,   mask |-> 65535],
       [name |-> "SkipConstEqual",           val |-> 12288, mask |-> 61440],
       [name |-> "SkipConstNotEqual",        val |-> 16384, mask |-> 61440],
       [name |-> "SkipRegistersEqual",       val |-> 20480, mask |-> 61455],
       [name |-> "SkipRegistersNotEqual",    val |-> 36864, mask |-> 61455],
       [name |-> "SetRegisterRegister",      val |-> 32768, mask |-> 61455],
       [name |-> "BinaryOr",                 val |-> 32769, mask |-> 61455],
       [name |-> "BinaryAnd",                val |-> 32770, mask |-> 61455],
       [name |-> "BinaryXor",                val |-> 32771, mask |-> 61455],
       [name |-> "AddRegisters",             val |-> 32772, mask |-> 61455],
       [name |-> "SubtractRegisters",        val |-> 32773, mask |-> 61455],
       [name |-> "SubtractRegistersReverse", val |-> 32775, mask |-> 61455],
       [name |-> "ShiftRegisterRight",       val |-> 32774, mask |-> 61455],
       [name |-> "ShiftRegisterLeft",        val |-> 32782, mask |-> 61455],
       [name |-> "JumpOffset",               val |-> 45056, mask |-> 61440],
       [name |-> "Random",                   val |-> 49152, mask |-> 61440],
       [name |-> "SkipIfKey",                val |-> 57502, mask |-> 61695],
       [name |-> "SkipIfNotKey",             val |-> 57505, mask |-> 61695],
       [name |-> "ReadDelayTimer",           val |-> 61447, mask |-> 61695],
       [name |-> "SetDelayTimer",            val |-> 61461, mask |-> 61695],
       [name |-> "SetSoundTimer",            val |-> 61464, mask |-> 61695],
       [name |-> "AddIndexRegister",         val |-> 61470, mask |-> 61695],
       [name |-> "GetKey",                   val |-> 61466, mask |-> 61695],
       [name |-> "ReadFontCharacter",        val |-> 61481, mask |-> 61695],
       [name |-> "DecimalDecoding",          val |-> 61491, mask |-> 61695],
       [name |-> "StoreMemory",              val |-> 61525, mask |-> 61695],
       [name |-> "LoadMemory",               val |-> 61541, mask |-> 61695] >>

\* instruction.execute(&mut self.state, opcode_data): the dynamic dispatch
instruction_execute(name, s, d, random_byte) ==
    CASE name = "ClearScreen"              -> ClearScreen(s, d)
      [] name = "Jump"                     -> Jump(s, d)
      [] name = "SetRegisterConst"         -> SetRegisterConst(s, d)
      [] name = "AddRegisterConst"         -> AddRegisterConst(s, d)
      [] name = "SetIndexRegister"         -> SetIndexRegister(s, d)
      [] name = "DisplayDraw"              -> DisplayDraw(s, d)
      [] name = "SubroutineCall"           -> SubroutineCall(s, d)
      [] name = "SubroutineReturn"         -> SubroutineReturn(s, d)
      [] name = "SkipConstEqual"           -> SkipConstEqual(s, d)
      [] name = "SkipConstNotEqual"        -> SkipConstNotEqual(s, d)
      [] name = "SkipRegistersEqual"       -> SkipRegistersEqual(s, d)
      [] name = "SkipRegistersNotEqual"    -> SkipRegistersNotEqual(s, d)
      [] name = "SetRegisterRegister"      -> SetRegisterRegister(s, d)
      [] name = "BinaryOr"                 -> BinaryOr(s, d)
      [] name = "BinaryAnd"                -> BinaryAnd(s, d)
      [] name = "BinaryXor"                -> BinaryXor(s, d)
      [] name = "AddRegisters"             -> AddRegisters(s, d)
      [] name = "SubtractRegisters"        -> SubtractRegisters(s, d)
      [] name = "SubtractRegistersReverse" -> SubtractRegistersReverse(s, d)
      [] name = "ShiftRegisterRight"       -> ShiftRegisterRight(s, d)
      [] name = "ShiftRegisterLeft"        -> ShiftRegisterLeft(s, d)
      [] name = "JumpOffset"               -> JumpOffset(s, d)
      [] name = "Random"                   -> Random(s, d, random_byte)
      [] name = "SkipIfKey"                -> SkipIfKey(s, d)
      [] name = "SkipIfNotKey"             -> SkipIfNotKey(s, d)
      [] name = "ReadDelayTimer"           -> ReadDelayTimer(s, d)
      [] name = "SetDelayTimer"            -> SetDelayTimer(s, d)
      [] name = "SetSoundTimer"            -> SetSoundTimer(s, d)
      [] name = "AddIndexRegister"         -> AddIndexRegister(s, d)
      [] name = "GetKey"                   -> GetKey(s, d)
      [] name = "ReadFontCharacter"        -> ReadFontCharacter(s, d)
      [] name = "DecimalDecoding"          -> DecimalDecoding(s, d)
      [] name = "StoreMemory"              -> StoreMemory(s, d)
      [] name = "LoadMemory"               -> LoadMemory(s, d)

\* What a call returns: Ok(()), Err(UnsupportedOpcode(code)), or no return
\* at all because the call panicked.
Returned(s, kind, code) == [state |-> s, kind |-> kind, code |-> code]

NoCode == 0 - 1

\* the loop without its special case at 1: the register is decremented
\* once per period whatever it holds
RECURSIVE decrement_while_wrapping(_, _)
decrement_while_wrapping(register, new_since_last_update) ==
    IF new_since_last_update > DECREMENT_PERIOD
    THEN decrement_while_wrapping((register - 1) % U8,
                                  new_since_last_update - DECREMENT_PERIOD)
    ELSE [register |-> register, since_last_update |-> new_since_last_update]

\* the loop whose special case at 1 clears the register and stores the time
\* left over instead of zero
RECURSIVE decrement_while_keeps_remainder(_, _)
decrement_while_keeps_remainder(register, new_since_last_update) ==
    IF new_since_last_update > DECREMENT_PERIOD
    THEN IF register > 1
         THEN decrement_while_keeps_remainder(register - 1,
                                              new_since_last_update - DECREMENT_PERIOD)
         ELSE [register |-> 0, since_last_update |-> new_since_last_update]
    ELSE [register |-> register, since_last_update |-> new_since_last_update]

\* the while loop of update_timer, new_since_last_update being the local
RECURSIVE decrement_while(_, _)
decrement_while(register, new_since_last_update) ==
    IF new_since_last_update > DECREMENT_PERIOD
    THEN IF register > 1
         THEN decrement_while(register - 1, new_since_last_update - DECREMENT_PERIOD)
         ELSE [register |-> 0, since_last_update |-> 0]
    ELSE [register |-> register, since_last_update |-> new_since_last_update]

\* update_timer that does not store the remainder back
update_timer_drops_remainder(register, since_last_update, time_delta) ==
    IF register > 0
    THEN [register |-> decrement_while(register, since_last_update + time_delta).register,
          since_last_update |-> 0]
    ELSE [register |-> register, since_last_update |-> since_last_update]

\* update_timer
update_timer(register, since_last_update, time_delta) ==
    IF register > 0
    THEN decrement_while(register, since_last_update + time_delta)
    ELSE [register |-> register, since_last_update |-> since_last_update]

\* EmulatedChip8::update_timers
update_timers(s, time_delta) ==
    LET delay == update_timer(s.delay_timer, s.since_last_delay_update, time_delta)
        sound == update_timer(s.sound_timer, s.since_last_sound_update, time_delta)
    IN  [s EXCEPT !.delay_timer = delay.register,
                  !.since_last_delay_update = delay.since_last_update,
                  !.sound_timer = sound.register,
                  !.since_last_sound_update = sound.since_last_update]

\* fetch that leaves pc where it was
fetch_without_increment(s) ==
    IF s.pc + 2 > MEMORY_SIZE
    THEN [state |-> Fault(s, "fetch_past_end"), opcode_bytes |-> NoCode]
    ELSE [state |-> s,
          opcode_bytes |-> MemGet(s.memory, s.pc) * 256 + MemGet(s.memory, s.pc + 1)]

\* EmulatedChip8::fetch: BigEndian::read_u16(&memory[pc..]) needs two bytes
\* at pc, then pc += 2.
fetch(s) ==
    IF s.pc + 2 > MEMORY_SIZE
    THEN [state |-> Fault(s, "fetch_past_end"), opcode_bytes |-> NoCode]
    ELSE [state |-> [s EXCEPT !.pc = AddressAdd(s.pc, 2)],
          opcode_bytes |-> MemGet(s.memory, s.pc) * 256 + MemGet(s.memory, s.pc + 1)]

\* EmulatedChip8::execute: the first instruction of the table that matches
RECURSIVE execute_from(_, _, _, _)
execute_from(i, s, opcode_data, random_byte) ==
    IF i > Len(supported_instructions)
    THEN Returned(s, "Err", opcode_data.full_opcode)
    ELSE LET instruction == supported_instructions[i]
         IN  IF BitAnd(opcode_data.full_opcode, instruction.mask) = instruction.val
             THEN LET after == instruction_execute(instruction.name, s, opcode_data,
                                                   random_byte)
                  IN  IF after.fault # NoFault
                      THEN Returned(after, "panic", NoCode)
                      ELSE Returned(after, "Ok", NoCode)
             ELSE execute_from(i + 1, s, opcode_data, random_byte)

\* execute whose error carries the address field of the word only
execute_err_nnn(s, opcode_data, random_byte) ==
    LET ret == execute_from(1, s, opcode_data, random_byte)
    IN  IF ret.kind = "Err" THEN Returned(ret.state, "Err", opcode_data.nnn) ELSE ret

\* execute that puts pc back on the word it could not match
execute_restores_pc(s, opcode_data, random_byte) ==
    LET ret == execute_from(1, s, opcode_data, random_byte)
    IN  IF ret.kind = "Err"
        THEN Returned([s EXCEPT !.pc = (s.pc - 2) % U16], "Err", ret.code)
        ELSE ret

\* execute whose scan of the table starts at an entry that varies from call
\* to call
execute_varying_start(s, opcode_data, random_byte) ==
    execute_from(1 + (random_byte % 2), s, opcode_data, random_byte)

execute(s, opcode_data, random_byte) == execute_from(1, s, opcode_data, random_byte)

----------------------------------------------------------------------------
(* The host: main() builds the machine, writes the font, loads one         *)
(* program and then calls step in a loop.  The loop of main() stops at the *)
(* first Err; here the host may also go on, which the library allows.      *)

\* Chip8Font::new_from_default: the 16 characters, 5 bytes each
Chip8Font ==
    << 240, 144, 144, 144, 240,    32,  96,  32,  32, 112,
       240,  16, 240, 128, 240,   240,  16, 240,  16, 240,
       144, 144, 240,  16,  16,   240, 128, 240,  16, 240,
       240, 128, 240, 144, 240,   240,  16,  32,  64,  64,
       240, 144, 240, 144, 240,   240, 144, 240,  16, 240,
       240, 144, 240, 144, 144,   224, 144, 224, 144, 224,
       240, 128, 128, 128, 240,   224, 144, 144, 144, 224,
       240, 128, 240, 128, 240,   240, 128, 240, 128, 128 >>

\* KeyInput::default
NoKeys == [k \in 0 .. 15 |-> FALSE]

\* The Chip8State of the variables, with no fault raised
CurrentState ==
    [ memory |-> memory, display |-> display, pc |-> pc, stack |-> stack,
      index_register |-> index_register,
      delay_timer |-> delay_timer,
      since_last_delay_update |-> since_last_delay_update,
      sound_timer |-> sound_timer,
      since_last_sound_update |-> since_last_sound_update,
      gp_registers |-> gp_registers, key_state |-> key_state,
      fault |-> NoFault ]

\* No key of the keypad: keypad_val = None
NoKey == 0 - 1

\* TuiRenderer::new: the shared display snapshot, key state and stop flag,
\* the three locks, the render and event threads at the top of their loops,
\* main() before its loop; frame is what the terminal shows, esc whether
\* Esc has been read
TuiRenderer_new ==
    [ display |-> {}, display_lock |-> "free",
      terminal_lock |-> "free",
      key_state |-> NoKeys, key_lock |-> "free",
      stop_state |-> FALSE,
      render |-> "check_stop",
      event |-> "check_stop", keypad_val |-> NoKey, esc |-> FALSE,
      main |-> "check", key_input |-> NoKeys,
      frame |-> {} ]

\* Chip8State::new (EmulatedChip8::new), before main() has done anything else
Init ==
    /\ memory = EmptyMemory
    /\ display = {}
    /\ pc = 0
    /\ stack = <<>>
    /\ index_register = 0
    /\ delay_timer = 0
    /\ since_last_delay_update = 0
    /\ sound_timer = 0
    /\ since_last_sound_update = 0
    /\ gp_registers = [i \in 0 .. 15 |-> 0]
    /\ key_state = NoKeys
    /\ host = "new"
    /\ rom = <<>>
    /\ result = [kind |-> "none", code |-> NoCode, fault |-> NoFault]
    /\ history = <<>>
    /\ overflow_checks \in BOOLEAN
    /\ tui = TuiRenderer_new

\* EmulatedChip8::write_font
WriteFont ==
    /\ host = "new"
    /\ memory' = MemCopy(memory, FONT_START, Chip8Font)
    /\ host' = "font"
    /\ UNCHANGED <<display, pc, stack, index_register, delay_timer,
                   since_last_delay_update, sound_timer, since_last_sound_update,
                   gp_registers, key_state, rom, result, history, overflow_checks,
                   tui>>

\* new_from_data that also rejects a program of exactly 2 KB
ProgramAccepted_below_limit(data) == ~(Len(data) >= MAX_PROGRAM_LEN)

\* Program::new_from_data
ProgramAccepted(data) == ~(Len(data) > MAX_PROGRAM_LEN)

\* load that copies the program and leaves pc where it was
load_keeps_pc(s, data) ==
    [s EXCEPT !.memory = MemCopy(s.memory, PROGRAM_START, data)]

\* Program::load
load(s, data) ==
    [s EXCEPT !.memory = MemCopy(s.memory, PROGRAM_START, data),
              !.pc = PROGRAM_START]

\* Program::new_from_data, then EmulatedChip8::load_program, for a program
\* of the set programs; main() returns the error of a rejected program
\* before anything is loaded.
LoadProgram(programs) ==
    /\ host = "font"
    /\ \E data \in programs :
        /\ rom' = data
        /\ IF ProgramAccepted(data)
           THEN /\ memory' = load(CurrentState, data).memory
                /\ pc' = load(CurrentState, data).pc
                /\ host' = "run"
           ELSE /\ host' = "rejected"
                /\ UNCHANGED <<memory, pc>>
    /\ UNCHANGED <<display, stack, index_register, delay_timer,
                   since_last_delay_update, sound_timer, since_last_sound_update,
                   gp_registers, key_state, result, history, overflow_checks,
                   tui>>

\* The longest run of step calls explored
MaxSteps == 4

\* step that decays the timers after the instruction has run
StepCall_timers_last(bound, key_input, time_delta, random_byte) ==
    /\ host = "run"
    /\ result.kind # "panic"
    /\ Len(history) < bound
    /\ \E fetched \in { fetch([CurrentState EXCEPT !.key_state = key_input]) } :
       \E opcode_data \in { IF fetched.opcode_bytes = NoCode THEN NoCode
                            ELSE decode(fetched.opcode_bytes) } :
       \E ran \in { IF fetched.state.fault # NoFault
                    THEN Returned(fetched.state, "panic", NoCode)
                    ELSE execute(fetched.state, opcode_data, random_byte) } :
       \E out \in { [ran EXCEPT !.state = update_timers(ran.state, time_delta)] } :
           /\ memory' = out.state.memory
           /\ display' = out.state.display
           /\ pc' = out.state.pc
           /\ stack' = out.state.stack
           /\ index_register' = out.state.index_register
           /\ delay_timer' = out.state.delay_timer
           /\ since_last_delay_update' = out.state.since_last_delay_update
           /\ sound_timer' = out.state.sound_timer
           /\ since_last_sound_update' = out.state.since_last_sound_update
           /\ gp_registers' = out.state.gp_registers
           /\ key_state' = out.state.key_state
           /\ result' = [kind |-> out.kind, code |-> out.code,
                         fault |-> out.state.fault]
           /\ history' = Append(history,
                  [ time_delta |-> time_delta,
                    pc |-> pc,
                    stack |-> stack,
                    gp_registers |-> gp_registers,
                    index_register |-> index_register,
                    opcode |-> fetched.opcode_bytes,
                    kind |-> out.kind,
                    delay_timer |-> out.state.delay_timer,
                    since_last_delay_update |-> out.state.since_last_delay_update,
                    sound_timer |-> out.state.sound_timer,
                    since_last_sound_update |-> out.state.since_last_sound_update,
                    display |-> out.state.display ])

\* One call of EmulatedChip8::step by the host: the key snapshot is stored,
\* the timers are updated, the word at pc is fetched and decoded, and the
\* first matching instruction is executed.  The host makes at most bound
\* calls.  What the call does to the machine:
StepCall(bound, key_input, time_delta, random_byte) ==
    /\ host = "run"
    /\ result.kind # "panic"
    /\ Len(history) < bound
    /\ \E timed \in { update_timers([CurrentState EXCEPT !.key_state = key_input],
                                    time_delta) } :
       \E fetched \in { fetch(timed) } :
       \E opcode_data \in { IF fetched.opcode_bytes = NoCode THEN NoCode
                            ELSE decode(fetched.opcode_bytes) } :
       \E out \in { IF fetched.state.fault # NoFault
                    THEN Returned(fetched.state, "panic", NoCode)
                    ELSE execute(fetched.state, opcode_data, random_byte) } :
           /\ memory' = out.state.memory
           /\ display' = out.state.display
           /\ pc' = out.state.pc
           /\ stack' = out.state.stack
           /\ index_register' = out.state.index_register
           /\ delay_timer' = out.state.delay_timer
           /\ since_last_delay_update' = out.state.since_last_delay_update
           /\ sound_timer' = out.state.sound_timer
           /\ since_last_sound_update' = out.state.since_last_sound_update
           /\ gp_registers' = out.state.gp_registers
           /\ key_state' = out.state.key_state
           /\ result' = [kind |-> out.kind, code |-> out.code,
                         fault |-> out.state.fault]
           /\ history' = Append(history,
                  [ time_delta |-> time_delta,
                    pc |-> pc,
                    stack |-> stack,
                    gp_registers |-> gp_registers,
                    index_register |-> index_register,
                    opcode |-> fetched.opcode_bytes,
                    kind |-> out.kind,
                    delay_timer |-> out.state.delay_timer,
                    since_last_delay_update |-> out.state.since_last_delay_update,
                    sound_timer |-> out.state.sound_timer,
                    since_last_sound_update |-> out.state.since_last_sound_update,
                    display |-> out.state.display ])

\* The call made by a host that does nothing else meanwhile
StepWithin(bound, key_input, time_delta, random_byte) ==
    /\ StepCall(bound, key_input, time_delta, random_byte)
    /\ UNCHANGED <<host, rom, overflow_checks, tui>>

Step(key_input, time_delta, random_byte) ==
    StepWithin(MaxSteps, key_input, time_delta, random_byte)

----------------------------------------------------------------------------
(* Programs and inputs explored *)

\* The bytes of a sequence of 16-bit words, big-endian
Bytes(words) ==
    [i \in 1 .. 2 * Len(words) |->
        IF i % 2 = 1 THEN words[(i + 1) \div 2] \div 256 ELSE words[i \div 2] % 256]

\* The word with nibbles a b c d, and the word with nibble a, register x, byte nn
Op(a, b, c, d) == a * 4096 + b * 256 + c * 16 + d

OpNN(a, x, nn) == a * 4096 + x * 256 + nn

OpNNN(a, nnn) == a * 4096 + nnn

\* Words around every (mask, value) pair of the table, matched and not
SampleWords ==
    { 0, 224, 225, 238, 239, 4095,
      Op(5, 10, 11, 0), Op(5, 10, 11, 1), Op(9, 1, 2, 0), Op(9, 1, 2, 15),
      Op(14, 1, 9, 14), Op(14, 1, 10, 1), Op(14, 1, 9, 15), Op(14, 1, 0, 0),
      Op(15, 1, 0, 10), Op(15, 1, 0, 0), Op(15, 1, 15, 15), 65535 }
    \cup { Op(8, 1, 2, k) : k \in 0 .. 15 }
    \cup { Op(15, 2, 0, 7), Op(15, 2, 1, 5), Op(15, 2, 1, 8), Op(15, 2, 1, 14),
           Op(15, 2, 1, 10), Op(15, 2, 2, 9), Op(15, 2, 3, 3), Op(15, 2, 5, 5),
           Op(15, 2, 6, 5) }
    \cup { OpNN(6, 3, 7), OpNN(7, 3, 255), OpNNN(10, 2748), OpNN(12, 4, 15),
           Op(13, 0, 0, 5) }

Programs ==
    \* one word, whatever it is
    { Bytes(<<w>>) : w \in SampleWords }
    \* jumps, to the program, to the last word of memory and past it
    \cup { Bytes(<<OpNNN(1, nnn)>>) : nnn \in {512, 564, 4094, 4095} }
    \cup { Bytes(<<OpNN(6, 0, v), OpNNN(11, nnn)>>) :
             v \in {0, 18, 255}, nnn \in {340, 516, 4095} }
    \* call and return, and a return with nothing to return to
    \cup { Bytes(<<OpNNN(2, 520), 238, 0, 0, OpNNN(2, 524), 0, 238>>) }
    \cup { Bytes(<<OpNNN(2, 4094)>>) }
    \* a subroutine with a body, a subroutine called from a subroutine, and
    \* one return more than there were calls
    \cup { Bytes(<<OpNNN(2, 518), OpNN(6, 1, 7), 0, OpNN(6, 2, 9), 238>>),
           Bytes(<<OpNNN(2, 516), 0, OpNNN(2, 520), 238, 238>>),
           Bytes(<<OpNNN(2, 516), 238, 238>>) }
    \* the key instructions on register values up to 15 and above
    \cup { Bytes(<<OpNN(6, 1, v), Op(14, 1, 9, 14)>>) : v \in {0, 5, 15, 16, 31, 255} }
    \cup { Bytes(<<OpNN(6, 1, v), Op(14, 1, 10, 1)>>) : v \in {0, 5, 15, 16, 31, 255} }
    \cup { Bytes(<<OpNN(6, 1, v), Op(15, 1, 1, 10), OpNN(6, 2, 7)>>) : v \in {0, 15, 16} }
    \* skips taken and not taken
    \cup { Bytes(<<OpNN(6, 10, v), OpNN(k, 10, 5), OpNN(6, 11, 5), Op(j, 10, 11, 0)>>) :
             v \in {5, 6}, k \in {3, 4}, j \in {5, 9} }

Durations == {2}

KeySnapshots == {NoKeys, [k \in 0 .. 15 |-> k = 0], [k \in 0 .. 15 |-> k = 15]}

RandomBytes == {165}

Next ==
    \/ WriteFont
    \/ LoadProgram(Programs)
    \/ \E key_input \in KeySnapshots, time_delta \in Durations, random_byte \in RandomBytes :
           Step(key_input, time_delta, random_byte)

Spec == Init /\ [][Next]_vars

----------------------------------------------------------------------------
(* Arithmetic programs: registers F, X and Y are set, then one flagged      *)
(* instruction runs on them.                                                *)

RegisterValues == {0, 1, 17, 23, 75, 77, 89, 127, 128, 156, 162, 195, 202, 255}

FlagValues == {0, 223}

RegisterIndexes == {0, 10, 15}

\* 8XY4 add, 8XY5 subtract, 8XY7 reverse subtract, 8XY6 and 8XYE shifts
FlaggedKinds == {4, 5, 7, 6, 14}

AluPrograms ==
    \* every pair of values, in registers A and B
    { Bytes(<<OpNN(6, 15, f), OpNN(6, 10, a), OpNN(6, 11, b), Op(8, 10, 11, k)>>) :
        <<f, a, b, k>> \in FlagValues \X RegisterValues \X RegisterValues \X FlaggedKinds }
    \* every pair of registers, register F and X = Y among them
    \cup
    { Bytes(<<OpNN(6, 15, 223), OpNN(6, x, a), OpNN(6, y, b), Op(8, x, y, k)>>) :
        <<x, y, a, b, k>> \in RegisterIndexes \X RegisterIndexes \X
                              {1, 128, 255} \X {1, 128, 255} \X FlaggedKinds }
    \* add to index
    \cup
    { Bytes(<<OpNNN(10, nnn), OpNN(6, 15, f), OpNN(6, x, a), Op(15, x, 1, 14)>>) :
        <<nnn, f, x, a>> \in {0, 287, 4015, 4095} \X FlagValues \X {10, 15} \X RegisterValues }
    \* add a constant
    \cup
    { Bytes(<<OpNN(6, 15, f), OpNN(6, x, a), OpNN(7, x, nn)>>) :
        <<f, x, a, nn>> \in FlagValues \X {10, 15} \X RegisterValues \X {0, 1, 23, 255} }

NextAlu ==
    \/ WriteFont
    \/ LoadProgram(AluPrograms)
    \/ \E key_input \in {NoKeys}, time_delta \in Durations, random_byte \in RandomBytes :
           Step(key_input, time_delta, random_byte)

SpecAlu == Init /\ [][NextAlu]_vars

----------------------------------------------------------------------------
(* Timer programs: a timer is set from V0, set again or left alone, and     *)
(* the host passes durations below, at and above the decrement period.      *)

TimerValues == {1, 2, 5}

TimerDurations == {2, 16, 17, 100}

TimerPrograms ==
    \* set delay, set sound, spin
    { Bytes(<<OpNN(6, 0, v), Op(15, 0, 1, 5), Op(15, 0, 1, 8), OpNNN(1, 518)>>) :
        v \in TimerValues }
    \* set delay twice, set sound twice
    \cup { Bytes(<<OpNN(6, 0, v), Op(15, 0, 1, k), Op(15, 0, 1, k), OpNNN(1, 518)>>) :
        v \in TimerValues, k \in {5, 8} }
    \* set delay, clear it from V1, set it again
    \cup { Bytes(<<OpNN(6, 0, v), Op(15, 0, 1, 5), Op(15, 1, 1, 5), Op(15, 0, 1, 5)>>) :
        v \in TimerValues }
    \* set delay, read it back
    \cup { Bytes(<<OpNN(6, 0, v), Op(15, 0, 1, 5), Op(15, 1, 0, 7), OpNNN(1, 518)>>) :
        v \in TimerValues }

NextTimer ==
    \/ WriteFont
    \/ LoadProgram(TimerPrograms)
    \/ \E key_input \in {NoKeys}, time_delta \in TimerDurations, random_byte \in RandomBytes :
           Step(key_input, time_delta, random_byte)

SpecTimer == Init /\ [][NextTimer]_vars

----------------------------------------------------------------------------
(* Reading a behaviour *)

\* A call of step has just been made
StepTaken == Len(history') = Len(history) + 1

\* The record of the last call of step
Last == history[Len(history)]

\* The nibbles and fields of a word, by arithmetic
Nibble1(w) == w \div 4096

FieldX(w) == (w \div 256) % 16

FieldY(w) == (w \div 16) % 16

FieldN(w) == w % 16

FieldNN(w) == w % 256

FieldNNN(w) == w % 4096

\* Words of instructions that leave pc alone
LeavesPc(w) ==
    \/ w = 224
    \/ Nibble1(w) \in {6, 7, 10, 12, 13}
    \/ Nibble1(w) = 8 /\ FieldN(w) \in {0, 1, 2, 3, 4, 5, 6, 7, 14}
    \/ Nibble1(w) = 15 /\ FieldNN(w) \in {7, 21, 24, 30, 41, 51, 85, 101}

\* Some instruction of the table matches the word
Matched(w) ==
    \E i \in 1 .. Len(supported_instructions) :
        BitAnd(w, supported_instructions[i].mask) = supported_instructions[i].val

\* Words of the set-timer instructions FX15 and FX18
IsSetDelay(w) == Nibble1(w) = 15 /\ FieldNN(w) = 21

IsSetSound(w) == Nibble1(w) = 15 /\ FieldNN(w) = 24

\* The time passed to the calls i + 1 .. j of step
RECURSIVE SumDeltas(_, _)
SumDeltas(i, j) ==
    IF j <= i THEN 0 ELSE history[j].time_delta + SumDeltas(i, j - 1)

\* No call i + 1 .. j of step executed set-delay-timer, or set-sound-timer
NoSetDelay(i, j) == \A k \in (i + 1) .. j : ~IsSetDelay(history[k].opcode)

NoSetSound(i, j) == \A k \in (i + 1) .. j : ~IsSetSound(history[k].opcode)

----------------------------------------------------------------------------
(* C1: every step that completes executes the big-endian word            *)
(* mem[pc] * 256 + mem[pc + 1] read at the pc before the step, with pc     *)
(* advanced by 2 before the handler runs: a jump 1nnn ends with pc = nnn   *)
(* whatever pc was, a call 2nnn pushes the advanced pc, and an             *)
(* instruction that leaves pc alone ends with pc = old pc + 2.             *)
C1_FetchAtPcThenAdvance ==
    [][ (StepTaken /\ result'.kind # "panic") =>
          LET word == MemGet(memory, pc) * 256 + MemGet(memory, pc + 1)
          IN  /\ history'[Len(history')].opcode = word
              /\ (Nibble1(word) = 1 => pc' = FieldNNN(word))
              /\ (Nibble1(word) = 2 =>
                    /\ pc' = FieldNNN(word)
                    /\ stack' = Append(stack, (pc + 2) % U16))
              /\ (LeavesPc(word) => pc' = (pc + 2) % U16) ]_vars

\* the jump 0x1234 has been executed and pc is 0x234
C1_Witness ==
    /\ history # <<>>
    /\ Last.opcode = 4660
    /\ result.kind = "Ok"
    /\ pc = 564

(* C2: a step whose fetched word matches no (mask, value) pair of the     *)
(* table returns Err(UnsupportedOpcode) carrying exactly that word, and a  *)
(* step whose word matches one returns Ok, whenever the step returns.      *)
C2_UnsupportedCarriesWord ==
    (history # <<>> /\ result.kind # "panic") =>
        /\ Last.kind = result.kind
        /\ (~Matched(Last.opcode) => result.kind = "Err" /\ result.code = Last.opcode)
        /\ (Matched(Last.opcode) => result.kind = "Ok" /\ result.code = NoCode)

\* the word 0x8128, which no instruction matches, has come back in the error
C2_Witness ==
    /\ history # <<>>
    /\ Last.opcode = 33064
    /\ result.kind = "Err"
    /\ result.code = 33064

----------------------------------------------------------------------------
(* C3: a timer at v > 0 with zero accumulated time is at 0 after v        *)
(* successive steps of exactly 17 ms, and stays at 0 in every later step,  *)
(* as long as no set-timer instruction runs.                               *)
C3_ZeroAfterVPeriods ==
    \A i \in 1 .. Len(history) : \A j \in (i + 1) .. Len(history) :
        LET v == history[i].delay_timer
        IN  ( /\ v > 0
              /\ history[i].since_last_delay_update = 0
              /\ j - i >= v
              /\ NoSetDelay(i, j)
              /\ \A k \in (i + 1) .. (i + v) : history[k].time_delta = DECREMENT_PERIOD )
            => history[j].delay_timer = 0

(* C4: one step never leaves a timer above the value it had nor wraps it  *)
(* below zero, whatever the value and the duration (as long as the step    *)
(* does not set that timer), and a timer at 5 with zero accumulated time   *)
(* is at 0 after one step of 100 ms.                                       *)
C4_DecayStaysInRange ==
    [][ StepTaken =>
          LET h == history'[Len(history')]
          IN  /\ ~IsSetDelay(h.opcode) => delay_timer' \in 0 .. delay_timer
              /\ ~IsSetSound(h.opcode) => sound_timer' \in 0 .. sound_timer
              /\ ( /\ delay_timer = 5
                   /\ since_last_delay_update = 0
                   /\ h.time_delta = 100
                   /\ ~IsSetDelay(h.opcode) ) => delay_timer' = 0
              /\ \A v \in {0, 1, 2, 3, 5, 6, 7, 255} :
                 \A time_delta \in {0, 1, 16, 17, 18, 34, 35, 100, 103, 400} :
                    update_timer(v, since_last_delay_update, time_delta).register
                        \in 0 .. v ]_vars

\* a delay timer at 5 with nothing accumulated has been drained by one
\* step of 100 ms
C4_Witness ==
    /\ Len(history) >= 2
    /\ history[Len(history) - 1].delay_timer = 5
    /\ history[Len(history) - 1].since_last_delay_update = 0
    /\ Last.time_delta = 100
    /\ ~IsSetDelay(Last.opcode)
    /\ delay_timer = 0

(* C5: between two set-timer instructions a timer's value depends only on *)
(* the total time passed to step: after any calls i + 1 .. j it is what    *)
(* one single update by the sum of their durations gives from the value    *)
(* and accumulator left by call i, for the delay and the sound timer.      *)
C5_DecayDependsOnTotal ==
    \A i \in 1 .. Len(history) : \A j \in (i + 1) .. Len(history) :
        /\ NoSetDelay(i, j) =>
              history[j].delay_timer =
                  update_timer(history[i].delay_timer,
                               history[i].since_last_delay_update,
                               SumDeltas(i, j)).register
        /\ NoSetSound(i, j) =>
              history[j].sound_timer =
                  update_timer(history[i].sound_timer,
                               history[i].since_last_sound_update,
                               SumDeltas(i, j)).register

\* two steps, each shorter than a period, have together decremented the
\* delay timer once
C5_Witness ==
    /\ Len(history) >= 3
    /\ NoSetDelay(Len(history) - 2, Len(history))
    /\ history[Len(history) - 1].time_delta < DECREMENT_PERIOD
    /\ Last.time_delta < DECREMENT_PERIOD
    /\ history[Len(history) - 1].delay_timer = history[Len(history) - 2].delay_timer
    /\ history[Len(history) - 2].delay_timer > 0
    /\ Last.delay_timer = history[Len(history) - 2].delay_timer - 1

(* C6: set-delay-timer and set-sound-timer copy VX into the timer and     *)
(* leave its accumulator as the decay of the same step left it, so the     *)
(* step after a set decrements the timer as soon as the accumulator        *)
(* passes the period, however short that step is.                          *)
C6_SetTimerKeepsAccumulator ==
    [][ StepTaken =>
          LET h == history'[Len(history')]
          IN  /\ IsSetDelay(h.opcode) =>
                    /\ delay_timer' = gp_registers[FieldX(h.opcode)]
                    /\ since_last_delay_update' =
                          update_timer(delay_timer, since_last_delay_update,
                                       h.time_delta).since_last_update
              /\ IsSetSound(h.opcode) =>
                    /\ sound_timer' = gp_registers[FieldX(h.opcode)]
                    /\ since_last_sound_update' =
                          update_timer(sound_timer, since_last_sound_update,
                                       h.time_delta).since_last_update
              /\ ( /\ history # <<>>
                   /\ IsSetDelay(Last.opcode)
                   /\ ~IsSetDelay(h.opcode)
                   /\ delay_timer > 0
                   /\ h.time_delta < DECREMENT_PERIOD
                   /\ since_last_delay_update + h.time_delta > DECREMENT_PERIOD )
                 => delay_timer' = delay_timer - 1 ]_vars

\* the delay timer was set with 16 ms accumulated and the next step, of
\* 2 ms, has decremented it
C6_Witness ==
    /\ Len(history) >= 2
    /\ IsSetDelay(history[Len(history) - 1].opcode)
    /\ history[Len(history) - 1].since_last_delay_update = 16
    /\ history[Len(history) - 1].delay_timer > 0
    /\ Last.time_delta = 2
    /\ ~IsSetDelay(Last.opcode)
    /\ delay_timer = history[Len(history) - 1].delay_timer - 1

----------------------------------------------------------------------------
(* Flagged arithmetic *)

\* The word is 8XYk
IsAlu(w, k) == Nibble1(w) = 8 /\ FieldN(w) = k

\* The word is FX1E
IsAddIndex(w) == Nibble1(w) = 15 /\ FieldNN(w) = 30

\* What an instruction that writes registers X and F only leaves alone,
\* pc being past the instruction
OnlyXAndFlagChange(w) ==
    /\ \A r \in (0 .. 15) \ {FieldX(w), 15} : gp_registers'[r] = gp_registers[r]
    /\ memory' = memory
    /\ display' = display
    /\ stack' = stack
    /\ index_register' = index_register
    /\ pc' = (pc + 2) % U16

\* The word executed by the step just taken, when the step returned Ok
Executed(w) == StepTaken /\ result'.kind = "Ok" /\ history'[Len(history')].opcode = w

\* The four bytes 6F f, 6X a, 6Y b of an arithmetic program are in place
\* and the instruction after them has been executed
AluProgramRan(f, x, a, y, b, w) ==
    /\ Len(history) = 4
    /\ result.kind = "Ok"
    /\ Last.opcode = w
    /\ MemGet(memory, PROGRAM_START + 1) = f
    /\ MemGet(memory, PROGRAM_START + 2) = 96 + x
    /\ MemGet(memory, PROGRAM_START + 3) = a
    /\ MemGet(memory, PROGRAM_START + 4) = 96 + y
    /\ MemGet(memory, PROGRAM_START + 5) = b

(* C7: register addition 8XY4 leaves VF at 1 iff VX + VY > 255, else 0,   *)
(* whatever VF held, and VX at (VX + VY) mod 256 (for X = F the flag,      *)
(* written last, is what register F holds); nothing else changes.          *)
C7_AddRegisters ==
    [][ \A w \in { history'[n].opcode : n \in {Len(history')} \ {0} } :
          (Executed(w) /\ IsAlu(w, 4)) =>
             LET a == gp_registers[FieldX(w)]
                 b == gp_registers[FieldY(w)]
             IN  /\ gp_registers'[15] = (IF a + b > 255 THEN 1 ELSE 0)
                 /\ FieldX(w) # 15 => gp_registers'[FieldX(w)] = (a + b) % 256
                 /\ OnlyXAndFlagChange(w) ]_vars

\* 0xA2 + 0x7F in registers A and B, register F holding 0xDF: 0x21, flag 1
C7_Witness ==
    /\ AluProgramRan(223, 10, 162, 11, 127, Op(8, 10, 11, 4))
    /\ gp_registers[10] = 33
    /\ gp_registers[15] = 1

(* C8: subtraction 8XY5 leaves VX at (VX - VY) mod 256 and VF at 0 iff    *)
(* VY > VX, else 1; reverse subtraction 8XY7 leaves VX at (VY - VX) mod    *)
(* 256 and VF at 0 iff VX > VY, else 1; for all operands and any VF.       *)
C8_SubtractRegisters ==
    [][ \A w \in { history'[n].opcode : n \in {Len(history')} \ {0} } :
          LET a == gp_registers[FieldX(w)]
              b == gp_registers[FieldY(w)]
          IN  /\ (Executed(w) /\ IsAlu(w, 5)) =>
                    /\ gp_registers'[15] = (IF b > a THEN 0 ELSE 1)
                    /\ FieldX(w) # 15 => gp_registers'[FieldX(w)] = (a - b) % 256
                    /\ OnlyXAndFlagChange(w)
              /\ (Executed(w) /\ IsAlu(w, 7)) =>
                    /\ gp_registers'[15] = (IF a > b THEN 0 ELSE 1)
                    /\ FieldX(w) # 15 => gp_registers'[FieldX(w)] = (b - a) % 256
                    /\ OnlyXAndFlagChange(w) ]_vars

\* 0x11 - 0xCA in registers A and B: 0x47, flag 0
C8_Witness ==
    /\ AluProgramRan(0, 10, 17, 11, 202, Op(8, 10, 11, 5))
    /\ gp_registers[10] = 71
    /\ gp_registers[15] = 0

(* C9: shift right 8XY6 leaves VX at VX >> 1 and VF at the old VX & 1;    *)
(* shift left 8XYE leaves VX at (VX << 1) mod 256 and VF at 1 iff the old  *)
(* VX had bit 0x80; neither the Y field nor VY has a part in the result.   *)
C9_ShiftRegisters ==
    [][ \A w \in { history'[n].opcode : n \in {Len(history')} \ {0} } :
          LET a == gp_registers[FieldX(w)]
          IN  /\ (Executed(w) /\ IsAlu(w, 6)) =>
                    /\ gp_registers'[15] = a % 2
                    /\ FieldX(w) # 15 => gp_registers'[FieldX(w)] = a \div 2
                    /\ OnlyXAndFlagChange(w)
              /\ (Executed(w) /\ IsAlu(w, 14)) =>
                    /\ gp_registers'[15] = (IF a >= 128 THEN 1 ELSE 0)
                    /\ FieldX(w) # 15 => gp_registers'[FieldX(w)] = (a * 2) % 256
                    /\ OnlyXAndFlagChange(w) ]_vars

\* 0x59 >> 1 in register A, register B holding 0x9C: 0x2C, flag 1
C9_Witness ==
    /\ AluProgramRan(0, 10, 89, 11, 156, Op(8, 10, 11, 6))
    /\ gp_registers[10] = 44
    /\ gp_registers[11] = 156
    /\ gp_registers[15] = 1

\* The flag an instruction defines, from the registers and index register
\* before it
FlagOf(w) ==
    LET a == gp_registers[FieldX(w)]
        b == gp_registers[FieldY(w)]
    IN  CASE IsAlu(w, 4)   -> IF a + b > 255 THEN 1 ELSE 0
          [] IsAlu(w, 5)   -> IF b > a THEN 0 ELSE 1
          [] IsAlu(w, 7)   -> IF a > b THEN 0 ELSE 1
          [] IsAlu(w, 6)   -> a % 2
          [] IsAlu(w, 14)  -> IF a >= 128 THEN 1 ELSE 0
          [] IsAddIndex(w) -> IF (index_register + a) % U16 > 4095 THEN 1 ELSE 0

DefinesFlag(w) ==
    IsAlu(w, 4) \/ IsAlu(w, 5) \/ IsAlu(w, 7) \/ IsAlu(w, 6) \/ IsAlu(w, 14) \/ IsAddIndex(w)

(* C10: after every instruction that defines a flag (add, subtract,       *)
(* reverse subtract, shift right, shift left, add to index) register F     *)
(* holds that flag, 0 or 1, for every operand and every X and Y, register  *)
(* F among them: as destination it keeps the flag, not the result.         *)
C10_FlagRegisterHoldsFlag ==
    [][ \A w \in { history'[n].opcode : n \in {Len(history')} \ {0} } :
          (Executed(w) /\ DefinesFlag(w)) =>
             /\ gp_registers'[15] = FlagOf(w)
             /\ gp_registers'[15] \in {0, 1} ]_vars

\* 0x80 << 1 with register F as destination and register A as Y: the
\* result 0x00 is gone and register F holds the flag 1
C10_Witness ==
    /\ AluProgramRan(223, 15, 128, 10, 255, Op(8, 15, 10, 14))
    /\ gp_registers[15] = 1

----------------------------------------------------------------------------
(* Add constant *)

(* C11: add-constant 7XNN leaves VX at (VX + NN) mod 256 and every other   *)
(* register, register F among them, as it was, also when the sum exceeds   *)
(* 255; 6AFF then 7A01 leaves register A at 0 and register F untouched.    *)
C11_AddRegisterConst ==
    [][ \A w \in { history'[n].opcode : n \in {Len(history')} \ {0} } :
          (Executed(w) /\ Nibble1(w) = 7) =>
             /\ gp_registers'[FieldX(w)] = (gp_registers[FieldX(w)] + FieldNN(w)) % 256
             /\ \A r \in (0 .. 15) \ {FieldX(w)} : gp_registers'[r] = gp_registers[r]
             /\ memory' = memory
             /\ display' = display
             /\ stack' = stack
             /\ index_register' = index_register
             /\ pc' = (pc + 2) % U16 ]_vars

\* 6FDF, 6AFF, 7A01 have run: register A is 0 and register F still 0xDF
C11_Witness ==
    /\ Len(history) = 3
    /\ result.kind = "Ok"
    /\ history[1].opcode = OpNN(6, 15, 223)
    /\ history[2].opcode = OpNN(6, 10, 255)
    /\ Last.opcode = OpNN(7, 10, 1)
    /\ gp_registers[10] = 0
    /\ gp_registers[15] = 223

----------------------------------------------------------------------------
(* Subroutines and skips *)

\* pc and stack after call n of step: what call n + 1 found, or the
\* variables for the last call
PcAfter(n) == IF n < Len(history) THEN history[n + 1].pc ELSE pc

StackAfter(n) == IF n < Len(history) THEN history[n + 1].stack ELSE stack

IsCall(n) == history[n].kind = "Ok" /\ Nibble1(history[n].opcode) = 2

IsReturn(n) == history[n].kind = "Ok" /\ history[n].opcode = 238

\* Call j of step is the return of the subroutine entered by call i: the
\* stack has stayed above its depth before the call in between, and the
\* return finds it one deeper than the call did
ReturnsFrom(i, j) ==
    /\ IsCall(i)
    /\ IsReturn(j)
    /\ Len(history[j].stack) = Len(history[i].stack) + 1
    /\ \A k \in (i + 1) .. j : Len(history[k].stack) > Len(history[i].stack)

(* C12: a call and the return that ends it leave pc at the address just   *)
(* after the call instruction, which is what the call handler found in pc, *)
(* and the stack with the depth and contents it had before the call.       *)
C12_CallReturnRoundTrip ==
    \A i \in 1 .. Len(history) : \A j \in (i + 1) .. Len(history) :
        ReturnsFrom(i, j) =>
            /\ PcAfter(j) = history[i].pc + 2
            /\ StackAfter(j) = history[i].stack
            /\ StackAfter(i) = Append(history[i].stack, history[i].pc + 2)

\* the subroutine at 0x208, called from the subroutine at 0x204, has
\* returned to 0x206 and left the return address of the outer call
C12_Witness ==
    /\ Len(history) = 3
    /\ ReturnsFrom(2, 3)
    /\ history[2].stack = <<514>>
    /\ history[2].pc = 516
    /\ pc = 518
    /\ stack = <<514>>

\* Words of the four conditional skips, and the condition of each
IsSkip(w) ==
    \/ Nibble1(w) \in {3, 4}
    \/ Nibble1(w) \in {5, 9} /\ FieldN(w) = 0

SkipCondition(w) ==
    CASE Nibble1(w) = 3 -> gp_registers[FieldX(w)] = FieldNN(w)
      [] Nibble1(w) = 4 -> gp_registers[FieldX(w)] # FieldNN(w)
      [] Nibble1(w) = 5 -> gp_registers[FieldX(w)] = gp_registers[FieldY(w)]
      [] Nibble1(w) = 9 -> gp_registers[FieldX(w)] # gp_registers[FieldY(w)]

(* C14: a conditional skip 3XNN, 4XNN, 5XY0 or 9XY0 ends with pc 2 past   *)
(* the advanced pc when its condition holds and at the advanced pc when it *)
(* does not, and in both cases changes nothing else of the machine.        *)
C14_SkipsAddTwo ==
    [][ \A w \in { history'[n].opcode : n \in {Len(history')} \ {0} } :
          (Executed(w) /\ IsSkip(w)) =>
             /\ pc' = (IF SkipCondition(w) THEN pc + 4 ELSE pc + 2)
             /\ gp_registers' = gp_registers
             /\ memory' = memory
             /\ display' = display
             /\ stack' = stack
             /\ index_register' = index_register ]_vars

\* 6A06, 4A05, 6B05 and then 9AB0 with 6 in register A and 5 in register
\* B: the skip is taken from 0x206 to 0x20A
C14_Witness ==
    /\ Len(history) = 4
    /\ result.kind = "Ok"
    /\ Last.opcode = Op(9, 10, 11, 0)
    /\ gp_registers[10] = 6
    /\ gp_registers[11] = 5
    /\ Last.pc = 518
    /\ pc = 522

----------------------------------------------------------------------------
(* Long runs: a subroutine that calls itself RecursionDepth - 1 times and  *)
(* then returns once more than it was called, and a run of add-to-index    *)
(* instructions that takes the index register past 0xFFFF.                 *)

RecursionDepth == 20

AddIndexRun == 242

LongPrograms ==
    { Bytes(<<OpNN(7, 0, 1), OpNN(3, 0, RecursionDepth), OpNNN(2, 512), 238>>),
      Bytes(<<OpNNN(10, 4095), OpNN(6, 0, 255)>>
            \o [i \in 1 .. AddIndexRun |-> Op(15, 0, 1, 14)]) }

\* The longest run of step calls explored with the long programs
MaxLongSteps == 244

NextLong ==
    \/ WriteFont
    \/ LoadProgram(LongPrograms)
    \/ \E key_input \in {NoKeys}, time_delta \in Durations, random_byte \in RandomBytes :
           StepWithin(MaxLongSteps, key_input, time_delta, random_byte)

SpecLong == Init /\ [][NextLong]_vars

(* C13: a return 00EE that finds the stack empty panics: the step neither *)
(* returns Err nor goes on; and a call 2NNN succeeds at every stack depth, *)
(* pushing the advanced pc.                                                *)
C13_ReturnOnEmptyStackPanics ==
    [][ \A w \in { history'[n].opcode : n \in {Len(history')} \ {0} } :
          /\ (StepTaken /\ w = 238 /\ stack = <<>>) =>
                /\ result'.kind = "panic"
                /\ result'.fault = "pop_empty_stack"
          /\ (StepTaken /\ w = 238 /\ stack # <<>>) => result'.kind = "Ok"
          /\ (StepTaken /\ w # NoCode /\ Nibble1(w) = 2) =>
                /\ result'.kind = "Ok"
                /\ stack' = Append(stack, (pc + 2) % U16) ]_vars

\* the stack has been deeper than the 16 entries of the original machine,
\* every call has been returned from, and one more return has panicked
C13_Witness ==
    /\ result.kind = "panic"
    /\ result.fault = "pop_empty_stack"
    /\ Last.opcode = 238
    /\ stack = <<>>
    /\ \E n \in 1 .. Len(history) : Len(history[n].stack) > 16

(* C16: add-to-index FX1E leaves the index register at (I + VX) mod 65536 *)
(* for every I and VX, without a fault, and register F at 1 iff the new    *)
(* index register is above 0xFFF, after any run of add-to-index            *)
(* instructions.                                                           *)
C16_AddIndexWraps ==
    [][ \A w \in { history'[n].opcode : n \in {Len(history')} \ {0} } :
          (StepTaken /\ w # NoCode /\ IsAddIndex(w)) =>
             /\ result'.kind = "Ok"
             /\ index_register' = (index_register + gp_registers[FieldX(w)]) % U16
             /\ gp_registers'[15] = (IF index_register' > 4095 THEN 1 ELSE 0) ]_vars

----------------------------------------------------------------------------
(* The unit tests of opcodes.rs: a state is built from Chip8State::new by  *)
(* with_pc, with_register and with_index_register, and one handler is      *)
(* applied to it directly, with no fetch before it.                        *)

TestPcs == {256, 516, 4096, 61440, 65281, 65535}

TestRegisters == {0, 18, 165, 255}

TestIndexes == {287, 4015, 65535}

\* The handler applied and the word decoded for it
TestCases ==
    { <<"JumpOffset", OpNNN(11, 340)>>, <<"JumpOffset", OpNNN(11, 0)>>,
      <<"JumpOffset", OpNNN(11, 4095)>>, <<"AddIndexRegister", Op(15, 0, 1, 14)>> }

\* Chip8State::new().with_pc(..).with_register(.., 0x0).with_index_register(..)
TestBuild ==
    /\ host = "new"
    /\ pc' \in TestPcs
    /\ \E v \in TestRegisters : gp_registers' = [gp_registers EXCEPT ![0] = v]
    /\ index_register' \in TestIndexes
    /\ host' = "built"
    /\ UNCHANGED <<memory, display, stack, delay_timer, since_last_delay_update,
                   sound_timer, since_last_sound_update, key_state, rom, result,
                   history, overflow_checks, tui>>

\* reader.execute(&mut state, OpCodeData::decode(word))
TestExecute(name, word, random_byte) ==
    /\ host = "built"
    /\ \E after \in { instruction_execute(name, CurrentState, decode(word), random_byte) } :
           /\ memory' = after.memory
           /\ display' = after.display
           /\ pc' = after.pc
           /\ stack' = after.stack
           /\ index_register' = after.index_register
           /\ delay_timer' = after.delay_timer
           /\ since_last_delay_update' = after.since_last_delay_update
           /\ sound_timer' = after.sound_timer
           /\ since_last_sound_update' = after.since_last_sound_update
           /\ gp_registers' = after.gp_registers
           /\ key_state' = after.key_state
           /\ result' = [kind |-> IF after.fault # NoFault THEN "panic" ELSE "Ok",
                         code |-> NoCode, fault |-> after.fault]
           /\ history' = Append(history,
                  [ time_delta |-> 0,
                    pc |-> pc,
                    stack |-> stack,
                    gp_registers |-> gp_registers,
                    index_register |-> index_register,
                    opcode |-> word,
                    kind |-> IF after.fault # NoFault THEN "panic" ELSE "Ok",
                    delay_timer |-> after.delay_timer,
                    since_last_delay_update |-> after.since_last_delay_update,
                    sound_timer |-> after.sound_timer,
                    since_last_sound_update |-> after.since_last_sound_update,
                    display |-> after.display ])
    /\ host' = "executed"
    /\ UNCHANGED <<rom, overflow_checks, tui>>

NextTest ==
    \/ TestBuild
    \/ \E test_case \in TestCases, random_byte \in RandomBytes :
           TestExecute(test_case[1], test_case[2], random_byte)

SpecTest == Init /\ [][NextTest]_vars

----------------------------------------------------------------------------
(* Keys *)

\* Words of skip-if-key EX9E, skip-if-not-key EXA1 and get-key FX1A
IsSkipIfKey(w) == Nibble1(w) = 14 /\ FieldNN(w) = 158

IsSkipIfNotKey(w) == Nibble1(w) = 14 /\ FieldNN(w) = 161

IsGetKey(w) == Nibble1(w) = 15 /\ FieldNN(w) = 26

(* C17: for every VX in 0..255, skip-if-key ends 2 past the advanced pc   *)
(* exactly when key VX & 0xF is pressed in the snapshot of the step, and   *)
(* skip-if-not-key exactly when it is not; neither faults.                 *)
C17_KeySkipsUseLowNibble ==
    [][ \A w \in { history'[n].opcode : n \in {Len(history')} \ {0} } :
          LET key == gp_registers[FieldX(w)] % 16
          IN  /\ (StepTaken /\ w # NoCode /\ IsSkipIfKey(w)) =>
                    /\ result'.kind = "Ok"
                    /\ pc' = (IF key_state'[key] THEN pc + 4 ELSE pc + 2)
              /\ (StepTaken /\ w # NoCode /\ IsSkipIfNotKey(w)) =>
                    /\ result'.kind = "Ok"
                    /\ pc' = (IF key_state'[key] THEN pc + 2 ELSE pc + 4) ]_vars

(* C18: a step that executes get-key FX1A while key VX is not pressed in  *)
(* its snapshot ends with pc at the address of that instruction, so the    *)
(* next step fetches the same instruction again, and so on while the key   *)
(* stays up; the first step whose snapshot has the key pressed ends with   *)
(* pc just past the instruction; registers, memory and stack (and display  *)
(* and index register) are as before throughout.                           *)
C18_GetKeyBusyWaits ==
    [][ \A w \in { history'[n].opcode : n \in {Len(history')} \ {0} } :
          /\ (StepTaken /\ w # NoCode /\ IsGetKey(w) /\ gp_registers[FieldX(w)] < 16) =>
                /\ result'.kind = "Ok"
                /\ pc' = (IF key_state'[gp_registers[FieldX(w)]] THEN pc + 2 ELSE pc)
                /\ gp_registers' = gp_registers
                /\ memory' = memory
                /\ stack' = stack
                /\ display' = display
                /\ index_register' = index_register
          /\ ( /\ StepTaken
               /\ history # <<>>
               /\ Last.kind = "Ok"
               /\ IsGetKey(Last.opcode)
               /\ ~key_state[gp_registers[FieldX(Last.opcode)]] ) =>
                /\ w = Last.opcode
                /\ history'[Len(history')].pc = Last.pc ]_vars

\* FX1A on key 0 has been executed three times at 0x200, twice with the
\* key up, and the third time, with the key down, has let the program go on
C18_Witness ==
    /\ Len(history) = 3
    /\ \A n \in 1 .. 3 : history[n].opcode = Op(15, 2, 1, 10) /\ history[n].pc = 512
    /\ result.kind = "Ok"
    /\ key_state[0]
    /\ pc = 514

----------------------------------------------------------------------------
(* Drawing programs: the index register and register A are set, one sprite *)
(* is drawn, and then a second one is drawn twice.  The sprites are the     *)
(* first font character, the bytes of the program itself and the last two   *)
(* bytes of memory; registers 0 and A give the anchors.                     *)

SpriteAddresses == {80, 512, 4094}

AnchorValues == {0, 31, 60, 62, 63, 95, 255}

AnchorRegisters == { <<10, 10>>, <<10, 0>>, <<0, 10>> }

DrawPrograms ==
    { Bytes(<<OpNNN(10, nnn), OpNN(6, 10, a), Op(13, first[1], first[2], rows1),
              Op(13, second[1], second[2], rows2),
              Op(13, second[1], second[2], rows2)>>) :
        <<nnn, a, first, rows1, second, rows2>> \in
            SpriteAddresses \X AnchorValues \X AnchorRegisters \X {1, 5}
                \X AnchorRegisters \X {0, 5, 15} }
    \* register F holds a value, or is itself the anchor, while a sprite is
    \* drawn and drawn again
    \cup
    { Bytes(<<OpNN(6, 15, f), OpNNN(10, nnn), Op(13, x, y, 5), Op(13, x, y, 5)>>) :
        <<f, nnn, x, y>> \in {7, 223} \X {80, 512} \X {0, 15} \X {0, 15} }
    \* a sprite is drawn, once or twice, and the screen is cleared
    \cup
    { Bytes(<<OpNN(6, 15, 223), OpNNN(10, nnn), OpNN(6, 10, a), Op(13, 10, 10, 5), 224>>) :
        <<nnn, a>> \in {80, 512} \X AnchorValues }
    \cup
    { Bytes(<<OpNNN(10, nnn), Op(13, 0, 0, rows), Op(13, 0, 0, rows), 224, 224>>) :
        <<nnn, rows>> \in {80, 512} \X {0, 5, 15} }

\* The longest run of step calls explored with the drawing programs
MaxDrawSteps == 5

NextDraw ==
    \/ WriteFont
    \/ LoadProgram(DrawPrograms)
    \/ \E key_input \in {NoKeys}, time_delta \in Durations, random_byte \in RandomBytes :
           StepWithin(MaxDrawSteps, key_input, time_delta, random_byte)

SpecDraw == Init /\ [][NextDraw]_vars

IsDraw(w) == Nibble1(w) = 13

\* Pixel [y][x] is one the draw w flips: it lies i rows below and j columns
\* right of the anchor, inside the sprite, and its bit is set
Flips(w, y, x) ==
    LET i == y - (gp_registers[FieldY(w)] % 32)
        j == x - (gp_registers[FieldX(w)] % 64)
    IN  /\ 0 <= i /\ i < FieldN(w)
        /\ 0 <= j /\ j < 8
        /\ (MemGet(memory, index_register + i) \div (2 ^ (7 - j))) % 2 = 1

(* C19: draw DXYN flips pixel [y0 + i][x0 + j], x0 = VX mod 64 and        *)
(* y0 = VY mod 32, exactly when 0 <= i < N, y0 + i < 32, 0 <= j < 8,       *)
(* x0 + j < 64 and bit 7 - j of mem[I + i] is 1, and leaves every other    *)
(* pixel as it was: rows past the bottom edge and columns past the right   *)
(* edge are dropped, none comes back at the opposite edge.                 *)
C19_DrawFlipsClipped ==
    [][ \A w \in { history'[n].opcode : n \in {Len(history')} \ {0} } :
          (Executed(w) /\ IsDraw(w)) =>
             /\ display' \subseteq (0 .. 31) \X (0 .. 63)
             /\ \A y \in 0 .. 31 : \A x \in 0 .. 63 :
                   (<<y, x>> \in display') = ((<<y, x>> \in display) # Flips(w, y, x)) ]_vars

\* five rows of the program's own bytes drawn at (63, 31) on the empty
\* display: only bit 7 of the first byte, 0xA2, is on the screen
C19_Witness ==
    /\ Len(history) = 3
    /\ result.kind = "Ok"
    /\ Last.opcode = Op(13, 10, 10, 5)
    /\ gp_registers[10] = 63
    /\ index_register = 512
    /\ display = {<<31, 63>>}

(* C20: the same draw executed twice in a row leaves the display exactly  *)
(* as it was before the first of the two, whatever the display, the        *)
(* sprite and the anchor, clipped anchors among them.                      *)
C20_DrawTwiceRestores ==
    [][ \A w \in { history'[n].opcode : n \in {Len(history')} \ {0} } :
          ( /\ Executed(w)
            /\ IsDraw(w)
            /\ Len(history) >= 2
            /\ Last.kind = "Ok"
            /\ Last.opcode = w ) =>
               display' = history[Len(history) - 1].display ]_vars

\* a sprite clipped at the right edge, drawn twice over pixels already lit
\* by the first draw, some of them under the sprite
C20_Witness ==
    /\ Len(history) = 5
    /\ result.kind = "Ok"
    /\ IsDraw(Last.opcode)
    /\ history[4].opcode = Last.opcode
    /\ history[4].kind = "Ok"
    /\ gp_registers[10] = 60
    /\ FieldX(Last.opcode) = 10
    /\ FieldN(Last.opcode) = 15
    /\ history[3].display # {}
    /\ history[3].display \ history[4].display # {}
    /\ history[4].display \ history[3].display # {}
    /\ display = history[3].display

(* C21: draw DXYN changes the display only: register F and every other   *)
(* register, memory, the index register, the stack and pc (past the        *)
(* instruction) are after the draw what they were before it, also when     *)
(* the draw turns lit pixels off.                                          *)
C21_DrawChangesDisplayOnly ==
    [][ \A w \in { history'[n].opcode : n \in {Len(history')} \ {0} } :
          (Executed(w) /\ IsDraw(w)) =>
             /\ gp_registers' = gp_registers
             /\ memory' = memory
             /\ index_register' = index_register
             /\ stack' = stack
             /\ pc' = (pc + 2) % U16 ]_vars

\* the font character 0 drawn twice at (0, 0) with 0xDF in register F: the
\* second draw has turned every pixel of the first off and register F is
\* still 0xDF
C21_Witness ==
    /\ Len(history) = 4
    /\ result.kind = "Ok"
    /\ history[1].opcode = OpNN(6, 15, 223)
    /\ Last.opcode = Op(13, 0, 0, 5)
    /\ history[3].opcode = Op(13, 0, 0, 5)
    /\ <<0, 0>> \in history[3].display
    /\ display = {}
    /\ gp_registers[15] = 223

(* C22: one step executing clear-screen 00E0 leaves all 2048 pixels off,  *)
(* whatever the display held, and changes no register, memory byte, index  *)
(* register or stack entry.                                                *)
C22_ClearScreen ==
    [][ \A w \in { history'[n].opcode : n \in {Len(history')} \ {0} } :
          (Executed(w) /\ w = 224) =>
             /\ \A y \in 0 .. 31 : \A x \in 0 .. 63 : <<y, x>> \notin display'
             /\ display' = {}
             /\ gp_registers' = gp_registers
             /\ memory' = memory
             /\ index_register' = index_register
             /\ stack' = stack
             /\ pc' = (pc + 2) % U16 ]_vars

\* a display with lit pixels in its last row has been cleared
C22_Witness ==
    /\ Len(history) = 5
    /\ result.kind = "Ok"
    /\ Last.opcode = 224
    /\ \E x \in 0 .. 63 : <<31, x>> \in history[4].display
    /\ display = {}
    /\ gp_registers[15] = 223

----------------------------------------------------------------------------
(* Memory programs: decimal decoding of every register value, stores of    *)
(* registers 0..X, stores followed by changed registers and a load, and    *)
(* writes at and past the end of memory.                                   *)

\* Addresses inside the font, in free memory, and the last four of memory
WriteAddresses == {82, 768}

EndAddresses == {4092, 4093, 4094, 4095}

MemPrograms ==
    \* decimal decoding
    { Bytes(<<OpNNN(10, nnn), OpNN(6, 8, v), Op(15, 8, 3, 3)>>) :
        <<nnn, v>> \in WriteAddresses \X (0 .. 255) }
    \cup
    { Bytes(<<OpNNN(10, nnn), OpNN(6, 8, v), Op(15, 8, 3, 3)>>) :
        <<nnn, v>> \in EndAddresses \X {9, 255} }
    \* decimal decoding and store with the index register above 0xFFF
    \cup
    { Bytes(<<OpNNN(10, 4095), OpNN(6, 0, v), Op(15, 0, 1, 14), w>>) :
        <<v, w>> \in {1, 5} \X {Op(15, 0, 3, 3), Op(15, 0, 5, 5), Op(15, 1, 5, 5)} }
    \* store
    \cup
    { Bytes(<<OpNN(6, 0, 222), OpNN(6, 1, 17), OpNN(6, 2, 34), OpNNN(10, nnn),
              Op(15, x, 5, 5)>>) :
        <<nnn, x>> \in (WriteAddresses \cup EndAddresses) \X {0, 1, 2, 3, 15} }
    \* store, new register values, load
    \cup
    { Bytes(<<OpNN(6, 0, a), OpNN(6, 1, b), OpNNN(10, nnn), Op(15, x, 5, 5),
              OpNN(6, 0, c), OpNN(6, 1, 51), OpNN(6, 3, 68), Op(15, x, 6, 5)>>) :
        <<a, b, c, nnn, x>> \in {0, 222} \X {17} \X {0, 1} \X WriteAddresses \X {0, 1, 2} }
    \* store, the index register moved away and back, load
    \cup
    { Bytes(<<OpNN(6, 0, 222), OpNN(6, 1, 17), OpNNN(10, nnn), Op(15, x, 5, 5),
              OpNNN(10, 80), OpNN(6, 0, 1), OpNNN(10, nnn), Op(15, x, 6, 5)>>) :
        <<nnn, x>> \in WriteAddresses \X {0, 1, 2} }

\* The longest run of step calls explored with the memory programs
MaxMemSteps == 8

NextMem ==
    \/ WriteFont
    \/ LoadProgram(MemPrograms)
    \/ \E key_input \in {NoKeys}, time_delta \in Durations, random_byte \in RandomBytes :
           StepWithin(MaxMemSteps, key_input, time_delta, random_byte)

SpecMem == Init /\ [][NextMem]_vars

\* Words of decimal decoding FX33, store FX55 and load FX65
IsDecimalDecoding(w) == Nibble1(w) = 15 /\ FieldNN(w) = 51

IsStore(w) == Nibble1(w) = 15 /\ FieldNN(w) = 85

IsLoad(w) == Nibble1(w) = 15 /\ FieldNN(w) = 101

\* Every byte of memory outside first .. last is after the step what it was
SameOutside(first, last) ==
    \A a \in ((DOMAIN memory) \cup (DOMAIN memory')) \ (first .. last) :
        MemGet(memory', a) = MemGet(memory, a)

(* C23: decimal decoding FX33 writes floor(VX / 100) to mem[I],           *)
(* floor((VX mod 100) / 10) to mem[I + 1] and VX mod 10 to mem[I + 2], for *)
(* every VX in 0..255, and leaves every other byte of memory, every        *)
(* register and the index register as they were.                           *)
C23_DecimalDecoding ==
    [][ \A w \in { history'[n].opcode : n \in {Len(history')} \ {0} } :
          (Executed(w) /\ IsDecimalDecoding(w)) =>
             LET v == gp_registers[FieldX(w)]
             IN  /\ MemGet(memory', index_register) = v \div 100
                 /\ MemGet(memory', index_register + 1) = (v % 100) \div 10
                 /\ MemGet(memory', index_register + 2) = v % 10
                 /\ SameOutside(index_register, index_register + 2)
                 /\ gp_registers' = gp_registers
                 /\ index_register' = index_register ]_vars

\* 255 decoded over the font bytes at 0x52: 2, 5, 5, and the font byte at
\* 0x55 is still 0x20
C23_Witness ==
    /\ Len(history) = 3
    /\ result.kind = "Ok"
    /\ Last.opcode = Op(15, 8, 3, 3)
    /\ gp_registers[8] = 255
    /\ index_register = 82
    /\ MemGet(memory, 82) = 2
    /\ MemGet(memory, 83) = 5
    /\ MemGet(memory, 84) = 5
    /\ MemGet(memory, 85) = 32

(* C24: store FX55 writes exactly X + 1 bytes, mem[I + i] = Vi for every  *)
(* i in 0..X inclusive, and leaves every other byte of memory, every       *)
(* register and the index register as they were.                           *)
C24_StoreMemory ==
    [][ \A w \in { history'[n].opcode : n \in {Len(history')} \ {0} } :
          (Executed(w) /\ IsStore(w)) =>
             /\ \A i \in 0 .. FieldX(w) :
                   MemGet(memory', index_register + i) = gp_registers[i]
             /\ SameOutside(index_register, index_register + FieldX(w))
             /\ gp_registers' = gp_registers
             /\ index_register' = index_register ]_vars

\* registers 0..2 stored over the font bytes at 0x52: 0xDE, 0x11, 0x22, and
\* the font byte at 0x55 is still 0x20
C24_Witness ==
    /\ Len(history) = 5
    /\ result.kind = "Ok"
    /\ Last.opcode = Op(15, 2, 5, 5)
    /\ index_register = 82
    /\ MemGet(memory, 82) = 222
    /\ MemGet(memory, 83) = 17
    /\ MemGet(memory, 84) = 34
    /\ MemGet(memory, 85) = 32

\* Call i of step was a store with register field x, the calls after it
\* have written no memory, and the index register is now what the store found
StoredAt(i, x) ==
    /\ history[i].kind = "Ok"
    /\ IsStore(history[i].opcode)
    /\ FieldX(history[i].opcode) = x
    /\ history[i].index_register = index_register
    /\ \A k \in (i + 1) .. Len(history) :
          /\ history[k].kind = "Ok"
          /\ Nibble1(history[k].opcode) \in {6, 7, 10}

(* C25: load FX65 undoes store FX55: after a store with field X at index  *)
(* I and any later changes of the registers, a load with the same X at the *)
(* same I leaves V0..VX at the values they had at the store, the registers *)
(* above X and the index register as they were just before the load, and   *)
(* memory unchanged.                                                       *)
C25_LoadInvertsStore ==
    [][ \A w \in { history'[n].opcode : n \in {Len(history')} \ {0} } :
          \A i \in 1 .. Len(history) :
             (Executed(w) /\ IsLoad(w) /\ StoredAt(i, FieldX(w))) =>
                /\ \A r \in 0 .. FieldX(w) :
                      gp_registers'[r] = history[i].gp_registers[r]
                /\ \A r \in (FieldX(w) + 1) .. 15 : gp_registers'[r] = gp_registers[r]
                /\ index_register' = index_register
                /\ memory' = memory ]_vars

\* 0xDE and 0x11 stored from registers 0 and 1, the registers set to 0x01,
\* 0x33 and (register 3) 0x44, and registers 0 and 1 loaded back
C25_Witness ==
    /\ Len(history) = 8
    /\ result.kind = "Ok"
    /\ Last.opcode = Op(15, 1, 6, 5)
    /\ history[4].opcode = Op(15, 1, 5, 5)
    /\ history[4].gp_registers[0] = 222
    /\ Last.gp_registers[0] = 1
    /\ Last.gp_registers[1] = 51
    /\ gp_registers[0] = 222
    /\ gp_registers[1] = 17
    /\ gp_registers[3] = 68

(* C26: a write that would reach past address 0xFFF, decimal decoding     *)
(* with I > 0xFFD or a store with I + X > 0xFFF, panics: the step returns  *)
(* neither Ok nor Err and nothing is written at the addresses a wrapped    *)
(* write would reach; a write whose last byte is at 0xFFF succeeds.        *)
C26_WritePastEndPanics ==
    [][ \A w \in { history'[n].opcode : n \in {Len(history')} \ {0} } :
          /\ (StepTaken /\ w # NoCode /\ IsDecimalDecoding(w)) =>
                IF index_register + 3 > 4096
                THEN /\ result'.kind = "panic"
                     /\ result'.fault = "write_past_end"
                     /\ memory' = memory
                ELSE /\ result'.kind = "Ok"
                     /\ MemGet(memory', index_register + 2) = gp_registers[FieldX(w)] % 10
          /\ (StepTaken /\ w # NoCode /\ IsStore(w)) =>
                IF index_register + FieldX(w) > 4095
                THEN /\ result'.kind = "panic"
                     /\ result'.fault = "index_past_end"
                     /\ \A a \in 0 .. 15 : MemGet(memory', a) = MemGet(memory, a)
                ELSE /\ result'.kind = "Ok"
                     /\ MemGet(memory', index_register + FieldX(w)) =
                            gp_registers[FieldX(w)] ]_vars

\* decimal decoding of 255 at 0xFFE, whose last digit would lie at 0x1000,
\* has panicked, and no digit is in memory
C26_Witness ==
    /\ Len(history) = 3
    /\ Last.opcode = Op(15, 8, 3, 3)
    /\ gp_registers[8] = 255
    /\ index_register = 4094
    /\ result.kind = "panic"
    /\ result.fault = "write_past_end"
    /\ MemGet(memory, 4094) = 0
    /\ MemGet(memory, 4095) = 0
    /\ MemGet(memory, 0) = 0

----------------------------------------------------------------------------
(* Programs by size: empty, one byte, a few bytes, and just below, at and  *)
(* above the 2 KB limit, besides the programs of Spec.                     *)

RomLengths == {0, 1, 2, 3, 2047, 2048, 2049, 2050, 3584}

\* A program of a given length, zero bytes among its bytes
RomOfLength(length) == [i \in 1 .. length |-> (i * 37 + 1) % 256]

RomPrograms == { RomOfLength(length) : length \in RomLengths } \cup Programs

\* The longest run of step calls explored with these programs
MaxRomSteps == 2

NextRom ==
    \/ WriteFont
    \/ LoadProgram(RomPrograms)
    \/ \E key_input \in KeySnapshots, time_delta \in Durations, random_byte \in RandomBytes :
           StepWithin(MaxRomSteps, key_input, time_delta, random_byte)

SpecRom == Init /\ [][NextRom]_vars

\* The machine is what it was: no byte of memory, no register, nothing
MachineUnchanged ==
    UNCHANGED <<memory, display, pc, stack, index_register, delay_timer,
                since_last_delay_update, sound_timer, since_last_sound_update,
                gp_registers, key_state>>

(* C27: a program of more than 2048 bytes is rejected when the Program is *)
(* constructed, before load runs, so it changes no byte of memory and no   *)
(* register, and nothing runs afterwards; a program of 2048 bytes or fewer *)
(* is accepted.                                                            *)
C27_LargeProgramRejected ==
    [][ /\ (host = "font" /\ host' # "font") =>
              /\ (Len(rom') > 2048) = (host' = "rejected")
              /\ (Len(rom') <= 2048) = (host' = "run")
              /\ (host' = "rejected" => MachineUnchanged)
        /\ (host = "rejected" => UNCHANGED vars) ]_vars

\* the program of 2049 bytes has been rejected: memory holds the font and
\* nothing else, and pc is still 0
C27_Witness ==
    /\ host = "rejected"
    /\ Len(rom) = 2049
    /\ DOMAIN memory \subseteq FONT_START .. (FONT_START + 79)
    /\ pc = 0
    /\ history = <<>>

(* C28: loading an accepted program of length L copies its bytes to       *)
(* mem[0x200 .. 0x200 + L), leaves every byte outside that range as it     *)
(* was and sets pc to 0x200, pc being 0 until then; the first step after   *)
(* loading executes the first two bytes of the program.                    *)
C28_ProgramLoadedAt0x200 ==
    [][ /\ (host \in {"new", "font"} => pc = 0)
        /\ (host = "font" /\ host' = "run") =>
              /\ \A i \in 1 .. Len(rom') : MemGet(memory', 511 + i) = rom'[i]
              /\ SameOutside(512, 511 + Len(rom'))
              /\ pc' = 512
        /\ (StepTaken /\ history = <<>>) =>
              /\ history'[1].pc = 512
              /\ Len(rom) >= 2 => history'[1].opcode = rom[1] * 256 + rom[2] ]_vars

\* the program of 2048 bytes is in memory up to its last byte at 0x9FF, the
\* font is still below it, and the first step has executed its first word
C28_Witness ==
    /\ Len(rom) = 2048
    /\ Len(history) = 1
    /\ history[1].pc = 512
    /\ history[1].opcode = rom[1] * 256 + rom[2]
    /\ rom[2048] # 0
    /\ MemGet(memory, 2559) = rom[2048]
    /\ MemGet(memory, 2560) = 0
    /\ MemGet(memory, FONT_START) = Chip8Font[1]

----------------------------------------------------------------------------
(* Decoding: one-word programs over every combination of six nibble        *)
(* values, 0x1B3D among them.                                              *)

DecodeNibbles == {0, 1, 3, 11, 13, 15}

DecodePrograms ==
    { Bytes(<<Op(a, b, c, d)>>) :
        <<a, b, c, d>> \in DecodeNibbles \X DecodeNibbles \X DecodeNibbles \X DecodeNibbles }

\* The longest run of step calls explored with the one-word programs
MaxDecodeSteps == 1

NextDecode ==
    \/ WriteFont
    \/ LoadProgram(DecodePrograms)
    \/ \E key_input \in {NoKeys}, time_delta \in Durations, random_byte \in RandomBytes :
           StepWithin(MaxDecodeSteps, key_input, time_delta, random_byte)

SpecDecode == Init /\ [][NextDecode]_vars

\* A word has been fetched by the last call of step
Fetched == history # <<>> /\ Last.opcode # NoCode

(* C29: decoding a word w gives full_opcode = w, x = (w >> 8) & 0xF,      *)
(* y = (w >> 4) & 0xF, n = w & 0xF, nn = w & 0xFF and nnn = w & 0xFFF, so  *)
(* nnn = ((x << 8) | nn) & 0xFFF, for every word, matched by an            *)
(* instruction or not.                                                     *)
C29_DecodeFields ==
    Fetched =>
        LET w == Last.opcode
            d == decode(w)
        IN  /\ DOMAIN d = {"full_opcode", "x", "y", "n", "nn", "nnn"}
            /\ d.full_opcode = w
            /\ d.x = (w \div 256) % 16
            /\ d.y = (w \div 16) % 16
            /\ d.n = w % 16
            /\ d.nn = w % 256
            /\ d.nnn = w % 4096
            /\ d.nnn = (d.x * 256 + d.nn) % 4096

\* 0x1B3D has been fetched, its fields are those of the unit test, and the
\* jump it encodes has taken pc to its nnn
C29_Witness ==
    /\ Fetched
    /\ Last.opcode = 6973
    /\ decode(Last.opcode) = [full_opcode |-> 6973, x |-> 11, y |-> 3, n |-> 13,
                              nn |-> 61, nnn |-> 2877]
    /\ result.kind = "Ok"
    /\ pc = 2877

(* C30, as stated: the decoded fields of every word satisfy               *)
(* full_opcode = (x << 12) | (y << 8) | (n << 4) | (nn & 0xF).             *)
C30_FullOpcodeFromFields ==
    Fetched =>
        LET d == decode(Last.opcode)
        IN  d.full_opcode = d.x * 4096 + d.y * 256 + d.n * 16 + (d.nn % 16)

(* C30, amended: x, y and n are the second, third and fourth nibble, so   *)
(* the decoded fields of every word satisfy                                *)
(* full_opcode = (full_opcode & 0xF000) | (x << 8) | (y << 4) | (nn & 0xF). *)
C30_FullOpcodeFromFieldsAmended ==
    Fetched =>
        LET d == decode(Last.opcode)
        IN  /\ d.full_opcode =
                  (d.full_opcode \div 4096) * 4096 + d.x * 256 + d.y * 16 + (d.nn % 16)
            /\ d.n = d.nn % 16
            /\ d.x < 16 /\ d.y < 16 /\ d.n < 16

\* 0xD1F3 has been fetched: x = 1, y = 0xF and the low nibble 3 put the
\* word together again under its first nibble
C30_Witness ==
    /\ Fetched
    /\ Last.opcode = Op(13, 1, 15, 3)
    /\ decode(Last.opcode).x = 1
    /\ decode(Last.opcode).y = 15
    /\ decode(Last.opcode).nn % 16 = 3
    /\ 13 * 4096 + 1 * 256 + 15 * 16 + 3 = decode(Last.opcode).full_opcode

----------------------------------------------------------------------------
(* Random programs: VX is set, then CXNN runs with every random byte.      *)

MaskValues == {0, 1, 15, 60, 165, 240, 255}

AllBytes == 0 .. 255

IsRandom(w) == Nibble1(w) = 12

\* The word the next call of step fetches
NextWord == MemGet(memory, pc) * 256 + MemGet(memory, pc + 1)

RandomPrograms ==
    { Bytes(<<OpNN(6, x, a), OpNN(12, x, nn)>>) :
        <<x, a, nn>> \in {4, 15} \X {255} \X MaskValues }

\* The longest run of step calls explored with the random programs
MaxRandomSteps == 2

NextRandom ==
    \/ WriteFont
    \/ LoadProgram(RandomPrograms)
    \* rand::random is called by CXNN only: the byte is drawn for that word
    \/ \E key_input \in {NoKeys}, time_delta \in Durations :
       \E random_byte \in (IF IsRandom(NextWord) THEN AllBytes ELSE RandomBytes) :
           StepWithin(MaxRandomSteps, key_input, time_delta, random_byte)

SpecRandom == Init /\ [][NextRandom]_vars

\* The host is about to make a call of step
AboutToStep(bound) ==
    host = "run" /\ result.kind # "panic" /\ Len(history) < bound /\ pc + 2 <= MEMORY_SIZE

\* The timers as a call of step with time_delta leaves them when the
\* instruction does not touch them
TimersDecayed(time_delta) ==
    LET timed == update_timers(CurrentState, time_delta)
    IN  /\ delay_timer' = timed.delay_timer
        /\ since_last_delay_update' = timed.since_last_delay_update
        /\ sound_timer' = timed.sound_timer
        /\ since_last_sound_update' = timed.since_last_sound_update

(* C31: CXNN leaves VX with no bit set outside NN, whatever NN and the     *)
(* random byte; every value b & NN with b in 0..255 is an outcome the      *)
(* step can have; and the step changes nothing but VX (pc has advanced by  *)
(* 2 and the timers have decayed, as in every step).                       *)
C31_RandomMasked ==
    /\ [][ \A w \in { history'[n].opcode : n \in {Len(history')} \ {0} } :
             (Executed(w) /\ IsRandom(w)) =>
                /\ BitAnd(gp_registers'[FieldX(w)], 255 - FieldNN(w)) = 0
                /\ gp_registers'[FieldX(w)] \in 0 .. 255
                /\ \A i \in (0 .. 15) \ {FieldX(w)} : gp_registers'[i] = gp_registers[i]
                /\ pc' = pc + 2
                /\ TimersDecayed(history'[Len(history')].time_delta)
                /\ UNCHANGED <<memory, display, stack, index_register>> ]_vars
    /\ [] ( (AboutToStep(MaxRandomSteps) /\ IsRandom(NextWord)) =>
              \A b \in AllBytes :
                  ENABLED ( /\ \E time_delta \in Durations :
                                   StepWithin(MaxRandomSteps, NoKeys, time_delta, b)
                            /\ result'.kind = "Ok"
                            /\ gp_registers'[FieldX(NextWord)] = BitAnd(b, FieldNN(NextWord)) ) )

\* C3C has run on V4 = 0xFF and left 0x24 there, which is 0xA5 & 0x3C
C31_Witness ==
    /\ history # <<>>
    /\ Last.opcode = OpNN(12, 4, 60)
    /\ Last.kind = "Ok"
    /\ Last.gp_registers[4] = 255
    /\ gp_registers[4] = 36

----------------------------------------------------------------------------
(* Replay: the programs of Spec and programs that go on after a CXNN, run  *)
(* with several random bytes, key snapshots and durations.                 *)

ReplayBytes == {90, 165}

ReplayKeys == {NoKeys, [k \in 0 .. 15 |-> k = 15]}

ReplayDurations == {2, 20}

ReplayPrograms ==
    Programs
    \cup { Bytes(<<OpNN(12, 4, 15), OpNN(7, 4, 1), 224>>),
           Bytes(<<OpNN(6, 0, 3), Op(15, 0, 1, 5), Op(15, 1, 0, 7)>>) }
    \* an unsupported word with a timer running, and one with an instruction
    \* after it
    \cup { Bytes(<<OpNN(6, 0, 3), Op(15, 0, 1, 5), 65535>>),
           Bytes(<<OpNN(6, 0, 3), Op(15, 0, 1, 8), 65535>>),
           Bytes(<<65535, OpNN(6, 1, 5)>>) }

\* The longest run of step calls explored in the replays
MaxReplaySteps == 3

NextReplay ==
    \/ WriteFont
    \/ LoadProgram(ReplayPrograms)
    \/ \E key_input \in ReplayKeys, time_delta \in ReplayDurations,
          random_byte \in ReplayBytes :
           StepWithin(MaxReplaySteps, key_input, time_delta, random_byte)

SpecReplay == Init /\ [][NextReplay]_vars

----------------------------------------------------------------------------
(* Dispatch: one-word programs, the word being the value of an entry of    *)
(* the table or that value with one bit changed.                           *)

DispatchWords ==
    { supported_instructions[i].val : i \in 1 .. Len(supported_instructions) }
    \cup { BitXor(supported_instructions[i].val, 2 ^ k) :
             i \in 1 .. Len(supported_instructions), k \in 0 .. 15 }

DispatchPrograms == { Bytes(<<w>>) : w \in DispatchWords }

\* The longest run of step calls explored with the dispatch programs
MaxDispatchSteps == 1

NextDispatch ==
    \/ WriteFont
    \/ LoadProgram(DispatchPrograms)
    \/ \E key_input \in {NoKeys}, time_delta \in Durations, random_byte \in RandomBytes :
           StepWithin(MaxDispatchSteps, key_input, time_delta, random_byte)

SpecDispatch == Init /\ [][NextDispatch]_vars

\* The entries of the table that match a word
Matching(w) ==
    { i \in 1 .. Len(supported_instructions) :
        BitAnd(w, supported_instructions[i].mask) = supported_instructions[i].val }

(* C33: no two entries of the dispatch table can match the same word (they *)
(* differ in a bit that both masks keep), so every word fetched matches at *)
(* most one entry, none exactly when the step returns UnsupportedOpcode,   *)
(* and the order of the table does not decide which handler runs.          *)
C33_AtMostOneMatch ==
    /\ \A i, j \in 1 .. Len(supported_instructions) :
          i < j =>
            BitAnd(BitAnd(BitXor(supported_instructions[i].val,
                                 supported_instructions[j].val),
                          supported_instructions[i].mask),
                   supported_instructions[j].mask) # 0
    /\ Fetched =>
          /\ Cardinality(Matching(Last.opcode)) <= 1
          /\ Last.kind = "Err" <=> Matching(Last.opcode) = {}

\* 0x8101 has been fetched and executed: of the nine 8XY_ entries it matches
\* binary-or, the 14th of the table, alone
C33_Witness ==
    /\ Fetched
    /\ Last.opcode = Op(8, 1, 0, 1)
    /\ Matching(Last.opcode) = {14}
    /\ Last.kind = "Ok"

----------------------------------------------------------------------------
(* C34: every call of step ends in Ok, in the UnsupportedOpcode error, or  *)
(* in a panic raised by a memory write past the end of memory or by a pop  *)
(* from an empty stack; no step panics for another reason (a fetch at a pc *)
(* at or past 0xFFF, a read of sprite or load-memory bytes past the end of *)
(* memory, a key number above 0xF).                                        *)
C34_OnlyWriteAndPopFault ==
    history # <<>> =>
        \/ result.kind \in {"Ok", "Err"}
        \/ /\ result.kind = "panic"
           /\ \/ result.fault = "write_past_end"
              \/ result.fault = "index_past_end" /\ IsStore(Last.opcode)
              \/ result.fault = "pop_empty_stack"

----------------------------------------------------------------------------
\* Words of read-delay-timer FX07
IsReadDelay(w) == Nibble1(w) = 15 /\ FieldNN(w) = 7

(* C35: in a step the key snapshot is stored and both timers are decayed  *)
(* by the elapsed duration before the instruction runs: FX07 copies the    *)
(* delay value already decayed in this step into VX, EX9E and EXA1 test    *)
(* the snapshot of this step, and a value written by FX15 or FX18 is left  *)
(* as written until the next step.                                         *)
C35_TimersAndKeysBeforeExecute ==
    [][ \A w \in { history'[n].opcode : n \in {Len(history')} \ {0} } :
          Executed(w) =>
            LET time_delta == history'[Len(history')].time_delta
                delay == update_timer(delay_timer, since_last_delay_update, time_delta)
                sound == update_timer(sound_timer, since_last_sound_update, time_delta)
                VX == gp_registers[FieldX(w)]
            IN  /\ since_last_delay_update' = delay.since_last_update
                /\ since_last_sound_update' = sound.since_last_update
                /\ delay_timer' = (IF IsSetDelay(w) THEN VX ELSE delay.register)
                /\ sound_timer' = (IF IsSetSound(w) THEN VX ELSE sound.register)
                /\ IsReadDelay(w) => gp_registers'[FieldX(w)] = delay.register
                /\ IsSkipIfKey(w) =>
                      pc' = (IF key_state'[VX] THEN pc + 4 ELSE pc + 2)
                /\ IsSkipIfNotKey(w) =>
                      pc' = (IF key_state'[VX] THEN pc + 2 ELSE pc + 4) ]_vars

\* the delay timer was set to 3, and the next step, 20 ms long, has read 2
\* into V1
C35_Witness ==
    /\ Len(history) = 3
    /\ history[2].opcode = Op(15, 0, 1, 5)
    /\ history[2].delay_timer = 3
    /\ Last.opcode = Op(15, 1, 0, 7)
    /\ Last.time_delta = 20
    /\ Last.kind = "Ok"
    /\ gp_registers[1] = 2
    /\ delay_timer = 2

----------------------------------------------------------------------------
(* C36: a step that returns UnsupportedOpcode is not rolled back: pc is   *)
(* 2 past the unsupported word, the key snapshot of the call is stored and *)
(* both timers are decayed, while registers, index register, memory,       *)
(* stack and display are as before the step; the step the host makes next  *)
(* fetches at the address after the unsupported word (and the word there,  *)
(* when two bytes are left to fetch).                                      *)
C36_UnsupportedNotRolledBack ==
    [][ /\ (StepTaken /\ result'.kind = "Err") =>
              /\ ~Matched(NextWord)
              /\ result'.code = NextWord
              /\ pc' = pc + 2
              /\ key_state' \in ReplayKeys
              /\ TimersDecayed(history'[Len(history')].time_delta)
              /\ UNCHANGED <<gp_registers, index_register, memory, stack, display>>
        /\ (StepTaken /\ history # <<>> /\ result.kind = "Err") =>
              /\ history'[Len(history')].pc = Last.pc + 2
              /\ history'[Len(history')].opcode \in {NextWord, NoCode} ]_vars

\* 6003, F015, FFFF: the third step, 20 ms long with key F held, returned
\* UnsupportedOpcode(0xFFFF) with the delay timer decayed from 3 to 2, the
\* key stored and pc past the word
C36_Witness ==
    /\ Len(history) = 3
    /\ result = [kind |-> "Err", code |-> 65535, fault |-> NoFault]
    /\ history[2].delay_timer = 3
    /\ Last.time_delta = 20
    /\ delay_timer = 2
    /\ key_state[15]
    /\ pc = 518
    /\ gp_registers[0] = 3

----------------------------------------------------------------------------
(* C37: the time accumulated since the last decrement of a timer is never *)
(* above one decrement period (17 ms), whatever durations the steps were   *)
(* given and whatever set-timer instructions ran; and a step that decays a *)
(* timer from a positive value to 0 leaves its accumulator at zero.        *)
C37_AccumulatorBounded ==
    /\ [] ( /\ since_last_delay_update \in 0 .. DECREMENT_PERIOD
            /\ since_last_sound_update \in 0 .. DECREMENT_PERIOD )
    /\ [][ StepTaken =>
             /\ ( /\ delay_timer > 0
                  /\ delay_timer' = 0
                  /\ ~IsSetDelay(history'[Len(history')].opcode) )
                => since_last_delay_update' = 0
             /\ ( /\ sound_timer > 0
                  /\ sound_timer' = 0
                  /\ ~IsSetSound(history'[Len(history')].opcode) )
                => since_last_sound_update' = 0 ]_vars

\* the delay timer stood at 1 with 16 ms accumulated, and a step of 2 ms
\* has taken it to 0 and the accumulator to zero
C37_Witness ==
    /\ Len(history) >= 2
    /\ history[Len(history) - 1].delay_timer = 1
    /\ history[Len(history) - 1].since_last_delay_update = 16
    /\ Last.time_delta = 2
    /\ ~IsSetDelay(Last.opcode)
    /\ delay_timer = 0
    /\ since_last_delay_update = 0

----------------------------------------------------------------------------
(* C38: over any sequence of steps the stack changes only by a call 2NNN, *)
(* which puts the address of the instruction after the call on top, and by *)
(* a return 00EE, which takes the address pushed last off the stack and    *)
(* into pc; no other step changes the stack, so nested calls return in the *)
(* reverse order of the calls and the depth of the stack is the number of  *)
(* calls executed less the number of returns executed.                     *)
C38_StackDiscipline ==
    /\ [][ (StepTaken /\ result'.kind # "panic") =>
             LET w == history'[Len(history')].opcode
             IN  IF result'.kind = "Ok" /\ Nibble1(w) = 2
                 THEN /\ stack' = stack \o <<pc + 2>>
                      /\ pc' = FieldNNN(w)
                 ELSE IF result'.kind = "Ok" /\ w = 238
                 THEN /\ stack # <<>>
                      /\ stack = stack' \o <<pc'>>
                 ELSE stack' = stack ]_vars
    /\ [] ( Len(stack) = Cardinality({ n \in 1 .. Len(history) : IsCall(n) })
                         - Cardinality({ n \in 1 .. Len(history) : IsReturn(n) }) )

\* two nested calls and two returns: the inner return has gone back to
\* 0x206 first, the outer to 0x202 after it, and the stack is empty again
C38_Witness ==
    /\ Len(history) = 4
    /\ IsCall(1) /\ IsCall(2) /\ IsReturn(3) /\ IsReturn(4)
    /\ history[3].stack = <<514, 518>>
    /\ history[4].pc = 518
    /\ history[4].stack = <<514>>
    /\ pc = 514
    /\ stack = <<>>

----------------------------------------------------------------------------
(* The renderer (renderer/tui.rs) and the loop of main() that drives it.   *)
(* TuiRenderer::new starts the render thread (run_loop) and the event      *)
(* thread (event_loop) before the machine is built; main() then loops:     *)
(* terminated(), current_key_state(), step, update_screen when the draw    *)
(* period has elapsed.  Leaving the loop drops the renderer.  A panic in   *)
(* step ends the process through the panic hook.                           *)

\* The variables of the machine and of the host, which the threads of the
\* renderer do not touch
machine == <<memory, display, pc, stack, index_register, delay_timer,
             since_last_delay_update, sound_timer, since_last_sound_update,
             gp_registers, key_state, host, rom, result, history, overflow_checks>>

\* The keypad keys the user presses
TuiKeys == {15}

\* The process has not exited
Alive == tui.main # "exited"

\* JoinHandle::is_finished of the event and render threads
join_handle_finished(thread) == thread = "finished"

\* TuiRenderer::terminated
terminated == join_handle_finished(tui.event) \/ join_handle_finished(tui.render)

\* The first rows of a Display that a copy has reached half way
CopiedRows == SCREEN_HEIGHT \div 2

HalfCopied(from, to) ==
    { p \in from : p[1] < CopiedRows } \cup { p \in to : p[1] >= CopiedRows }

(* event_loop *)

\* if stop_state.load(..) { break }
EventCheckStop ==
    /\ Alive /\ tui.event = "check_stop"
    /\ tui' = [tui EXCEPT !.event = IF tui.stop_state THEN "returning" ELSE "lock_keys"]
    /\ UNCHANGED machine

\* let mut lg = key_state.lock().unwrap()
EventLockKeys ==
    /\ Alive /\ tui.event = "lock_keys" /\ tui.key_lock = "free"
    /\ tui' = [tui EXCEPT !.key_lock = "event", !.event = "clear_keys"]
    /\ UNCHANGED machine

\* the keys pressed for longer than KEY_PRESS_DURATION are released, and the
\* guard is dropped
EventClearKeys ==
    /\ Alive /\ tui.event = "clear_keys"
    /\ \E expired \in SUBSET { k \in TuiKeys : tui.key_state[k] } :
           tui' = [tui EXCEPT
                     !.key_state = [k \in 0 .. 15 |-> tui.key_state[k] /\ k \notin expired],
                     !.key_lock = "free", !.event = "poll"]
    /\ UNCHANGED machine

\* event::poll times out or reads something that is not a key of the keypad
EventPollNothing ==
    /\ Alive /\ tui.event = "poll"
    /\ tui' = [tui EXCEPT !.event = "check_stop"]
    /\ UNCHANGED machine

\* KeyCode::Esc: stop_state.store(true, ..); break
EventPollEsc ==
    /\ Alive /\ tui.event = "poll"
    /\ tui' = [tui EXCEPT !.stop_state = TRUE, !.esc = TRUE, !.event = "returning"]
    /\ UNCHANGED machine

\* a key of the keypad is pressed: keypad_val = Some(..)
EventPollKey ==
    /\ Alive /\ tui.event = "poll"
    /\ \E keypad_val \in TuiKeys :
           tui' = [tui EXCEPT !.keypad_val = keypad_val, !.event = "lock_press"]
    /\ UNCHANGED machine

\* let mut lg = key_state.lock().unwrap()
EventLockPress ==
    /\ Alive /\ tui.event = "lock_press" /\ tui.key_lock = "free"
    /\ tui' = [tui EXCEPT !.key_lock = "event", !.event = "press"]
    /\ UNCHANGED machine

\* lg.0.key_state[keypad_val] = true, and the guard is dropped
EventPress ==
    /\ Alive /\ tui.event = "press"
    /\ tui' = [tui EXCEPT !.key_state[tui.keypad_val] = TRUE, !.keypad_val = NoKey,
                          !.key_lock = "free", !.event = "check_stop"]
    /\ UNCHANGED machine

\* Ok(()): the thread has finished
EventReturn ==
    /\ Alive /\ tui.event = "returning"
    /\ tui' = [tui EXCEPT !.event = "finished"]
    /\ UNCHANGED machine

EventThread ==
    \/ EventCheckStop \/ EventLockKeys \/ EventClearKeys
    \/ EventPollNothing \/ EventPollEsc \/ EventPollKey
    \/ EventLockPress \/ EventPress \/ EventReturn

(* run_loop *)

\* run_loop that never looks at the stop flag
RenderCheckStop_ignores_flag ==
    /\ Alive /\ tui.render = "check_stop"
    /\ tui' = [tui EXCEPT !.render = "lock_display"]
    /\ UNCHANGED machine

\* if stop_state.load(..) { return Ok(()) }
RenderCheckStop ==
    /\ Alive /\ tui.render = "check_stop"
    /\ tui' = [tui EXCEPT !.render = IF tui.stop_state THEN "returning" ELSE "lock_display"]
    /\ UNCHANGED machine

\* let display = display.lock().unwrap()
RenderLockDisplay ==
    /\ Alive /\ tui.render = "lock_display" /\ tui.display_lock = "free"
    /\ tui' = [tui EXCEPT !.display_lock = "render", !.render = "lock_terminal"]
    /\ UNCHANGED machine

\* let mut terminal = terminal.lock().unwrap()
RenderLockTerminal ==
    /\ Alive /\ tui.render = "lock_terminal" /\ tui.terminal_lock = "free"
    /\ tui' = [tui EXCEPT !.terminal_lock = "render", !.render = "draw"]
    /\ UNCHANGED machine

\* terminal.draw(|frame| Self::draw(frame, &display)), and both guards are
\* dropped
RenderDraw ==
    /\ Alive /\ tui.render = "draw"
    /\ tui' = [tui EXCEPT !.frame = tui.display,
                          !.terminal_lock = "free", !.display_lock = "free",
                          !.render = "check_stop"]
    /\ UNCHANGED machine

\* return Ok(()): the thread has finished
RenderReturn ==
    /\ Alive /\ tui.render = "returning"
    /\ tui' = [tui EXCEPT !.render = "finished"]
    /\ UNCHANGED machine

RenderThread ==
    \/ RenderCheckStop \/ RenderLockDisplay \/ RenderLockTerminal
    \/ RenderDraw \/ RenderReturn

(* the loop of main() *)

\* if renderer.terminated() { break }
MainCheck ==
    /\ host = "run" /\ tui.main = "check"
    /\ tui' = [tui EXCEPT !.main = IF terminated THEN "drop" ELSE "lock_keys"]
    /\ UNCHANGED machine

\* current_key_state: self.key_state.lock().unwrap()
MainLockKeys ==
    /\ tui.main = "lock_keys" /\ tui.key_lock = "free"
    /\ tui' = [tui EXCEPT !.key_lock = "main", !.main = "read_keys"]
    /\ UNCHANGED machine

\* .0.clone(), and the guard is dropped
MainReadKeys ==
    /\ tui.main = "read_keys"
    /\ tui' = [tui EXCEPT !.key_input = tui.key_state, !.key_lock = "free",
                          !.main = "step"]
    /\ UNCHANGED machine

\* emulated_chip8.step(key_input, expected_period)?: Ok goes on, Err leaves
\* main() and drops the renderer, a panic exits the process
MainStep(bound) ==
    /\ tui.main = "step"
    /\ \E time_delta \in Durations, random_byte \in RandomBytes :
           StepCall(bound, tui.key_input, time_delta, random_byte)
    /\ tui' = [tui EXCEPT !.main = CASE result'.kind = "Ok" -> "elapsed"
                                     [] result'.kind = "Err" -> "drop"
                                     [] result'.kind = "panic" -> "exited"]
    /\ UNCHANGED <<host, rom, overflow_checks>>

\* if last_draw.elapsed() > period_draw: not yet
MainNotElapsed ==
    /\ tui.main = "elapsed"
    /\ tui' = [tui EXCEPT !.main = "check"]
    /\ UNCHANGED machine

\* update_screen that writes the snapshot without taking its lock
MainLockDisplay_without_lock ==
    /\ tui.main = "elapsed"
    /\ tui' = [tui EXCEPT !.main = "copy"]
    /\ UNCHANGED machine

\* the period has elapsed; update_screen: self.display.lock().unwrap()
MainLockDisplay ==
    /\ tui.main = "elapsed" /\ tui.display_lock = "free"
    /\ tui' = [tui EXCEPT !.display_lock = "main", !.main = "copy"]
    /\ UNCHANGED machine

\* *guard = display.clone(), the first rows
MainCopy ==
    /\ tui.main = "copy"
    /\ tui' = [tui EXCEPT !.display = HalfCopied(display, tui.display),
                          !.main = "copy_rest"]
    /\ UNCHANGED machine

\* the rest of the rows, and the guard is dropped
MainCopyRest ==
    /\ tui.main = "copy_rest"
    /\ tui' = [tui EXCEPT !.display = display,
                          !.display_lock = IF tui.display_lock = "main" THEN "free"
                                           ELSE tui.display_lock,
                          !.main = "check"]
    /\ UNCHANGED machine

\* Drop for TuiRenderer: self.stop_state.store(true, ..)
MainDrop ==
    /\ tui.main = "drop"
    /\ tui' = [tui EXCEPT !.stop_state = TRUE, !.main = "join_render"]
    /\ UNCHANGED machine

\* render_jh.join()
MainJoinRender ==
    /\ tui.main = "join_render" /\ join_handle_finished(tui.render)
    /\ tui' = [tui EXCEPT !.main = "join_event"]
    /\ UNCHANGED machine

\* event_jh.join()
MainJoinEvent ==
    /\ tui.main = "join_event" /\ join_handle_finished(tui.event)
    /\ tui' = [tui EXCEPT !.main = "lock_terminal"]
    /\ UNCHANGED machine

\* let mut terminal = self.terminal.lock().unwrap()
MainLockTerminal ==
    /\ tui.main = "lock_terminal" /\ tui.terminal_lock = "free"
    /\ tui' = [tui EXCEPT !.terminal_lock = "main", !.main = "reset"]
    /\ UNCHANGED machine

\* reset_terminal, show_cursor, and main() returns
MainReset ==
    /\ tui.main = "reset"
    /\ tui' = [tui EXCEPT !.terminal_lock = "free", !.main = "ended"]
    /\ UNCHANGED machine

\* 610E, A050, D015: the font's 0 drawn across rows 14 to 18, then the
\* unsupported word 0000; and a return with nothing to return to
TuiPrograms ==
    { Bytes(<<OpNN(6, 1, 14), OpNNN(10, 80), Op(13, 0, 1, 5)>>),
      Bytes(<<238>>) }

\* The longest run of step calls explored with the renderer
MaxTuiSteps == 4

MainThread ==
    \/ WriteFont
    \/ LoadProgram(TuiPrograms)
    \/ MainCheck \/ MainLockKeys \/ MainReadKeys
    \/ MainStep(MaxTuiSteps)
    \/ MainNotElapsed \/ MainLockDisplay \/ MainCopy \/ MainCopyRest
    \/ MainDrop \/ MainJoinRender \/ MainJoinEvent \/ MainLockTerminal \/ MainReset

NextTui == MainThread \/ RenderThread \/ EventThread

SpecTui == Init /\ [][NextTui]_vars

\* The displays the machine has had at the end of a completed step, and the
\* all-false display it starts with
CompletedDisplays == {{}} \cup { history[n].display : n \in 1 .. Len(history) }

(* C39: what the render thread draws is always the display of the machine *)
(* as it was at the end of some completed step, or the initial all-false   *)
(* display: main() writes the shared snapshot only while it holds the      *)
(* snapshot's lock, between two steps, the render thread reads it only     *)
(* while it holds the same lock, and the snapshot is a completed display   *)
(* whenever main() does not hold the lock, so no half-copied frame is      *)
(* drawn.                                                                  *)
C39_RenderedFrameIsCompletedStep ==
    /\ tui.frame \in CompletedDisplays
    /\ tui.main \in {"copy", "copy_rest"} => tui.display_lock = "main"
    /\ tui.render \in {"lock_terminal", "draw"} => tui.display_lock = "render"
    /\ tui.display_lock # "main" => tui.display \in CompletedDisplays

\* the sprite drawn by the third step is on the terminal
C39_Witness ==
    /\ Len(history) >= 3
    /\ history[3].display # {}
    /\ tui.frame = history[3].display
    /\ <<14, 0>> \in tui.frame
    /\ <<18, 3>> \in tui.frame

----------------------------------------------------------------------------
(* Scheduling: a thread that can act again and again does act.  A thread   *)
(* waiting for a lock can act whenever the lock is free; the event thread  *)
(* leaves the key lock free while it polls, main() and the render thread   *)
(* leave theirs free while they sleep.                                     *)
SpecTuiFair ==
    /\ SpecTui
    /\ SF_vars(MainThread)
    /\ SF_vars(RenderThread)
    /\ SF_vars(EventThread)

\* The locks a thread holds
LocksHeld(thread) ==
    { lock \in {"display_lock", "terminal_lock", "key_lock"} : tui[lock] = thread }

\* The part of an iteration of main() between terminated() and the return
\* of step
BeforeStep == tui.main \in {"lock_keys", "read_keys", "step"}

\* main() has left its loop, the threads have finished and the renderer is
\* dropped
AllEnded ==
    /\ tui.main = "ended"
    /\ join_handle_finished(tui.event)
    /\ join_handle_finished(tui.render)

=============================================================================
